---- MODULE Spec2Model ----
(***************************************************************************)
(* Model of udugong/ginx: the JWT authentication middleware, the refresh   *)
(* token handler and the active-count rate limit middleware.               *)
(*                                                                         *)
(* Go strings are TLA+ strings; "" is the empty string.  An optional value *)
(* (a context value, a gin key, a response header) is a sequence of length *)
(* at most one: <<>> is "absent", <<v>> is "present with value v".         *)
(***************************************************************************)
EXTENDS Integers, Sequences, FiniteSets, TLC

VARIABLES
    now,        \* the clock read by the token managers (seconds)
    mb,         \* the authentication MiddlewareBuilder's fields
    authOut,    \* the last request served through mb.Build(), when, and its outcome
    rm,         \* the RefreshManager's fields
    rmOpts,     \* the names of the options applied to rm since NewRefreshManager
    refreshOut, \* the last request served by rm.Handler, when, and its outcome
    ab,         \* the active-count Builder's fields
    counter,    \* the active-count limiter: its ceiling (max) and its count per key (cnt)
    reqs,        \* the requests in the active-count middleware: position and history
    lb,          \* the sliding-window limit Builder's fields
    chain,       \* the handlers the engine uses, each built by lb.Build()
    lmOut,       \* the last request served through chain and its outcome
    bl,          \* the bucket limiters: constructed, closed, running Put tasks
    bb,          \* the bucket Builders constructed, in order
    bkOut,       \* the last request served by a bucket handler and its outcome
    heap,        \* the token managers and refresh managers allocated, by address
    lastWith,    \* the last WithOptions call: receiver, options, returned address
    built,       \* the builder's fields when Build returned its handler, <<>> before
    km,          \* the token manager that generates, with a fixed clock
    tok,         \* the token generated by km and the claims it was generated from
    ver,         \* the verification made: clock reading, token and VerifyToken's result
    inflight,    \* the requests in service at once, each with its own gin.Context
    replay,      \* refresh tokens presented in successful rotating refreshes, and the earlier uses of the last one
    eb      \* a builder whose exemption setters are called one after another: the last call's predicate, the one before it, and the outcome of the last request served

vars == <<now, mb, authOut, rm, rmOpts, refreshOut, ab, counter, reqs, lb, chain, lmOut, bl, bb, bkOut, heap, lastWith, built, km, tok, ver, inflight, replay, eb>>

(***************************************************************************)
(* Bounds of the model.                                                    *)
(***************************************************************************)
MaxNow == 3          \* the clock runs over 0..MaxNow (ticks)
TicksPerSecond == 2  \* resolution of the clock
MaxUid == 2          \* caller-defined claim uid ranges over 1..MaxUid
MaxIssue == 1        \* request tokens were issued at instants 0..MaxIssue
NumReqs == 2         \* concurrent requests in the active-count middleware
NumIPs == 2          \* client IPs
MaxActive == 1       \* the ceiling N of the limiter the middleware starts with
GateReqs == 3        \* concurrent requests at the gate whose limiter does not fail
GateCeiling == 2     \* the ceilings N a limiter at that gate is constructed with
MaxChain == 2        \* middlewares one engine uses
NumLimiters == 2     \* bucket limiter instances
MaxBuilders == 2     \* bucket Builders constructed
MaxHeap == 4         \* managers allocated
MaxExpire == 3       \* longest expiry of a generated token, in ticks
NumConc == 2         \* requests in service at once
MaxReplay == 2       \* repeated uses of a refresh token that are recorded
MaxDrift == 1        \* counts a key may be off by when the builder is reconfigured in service
MaxLeak == 1         \* failed Decr calls the model follows
ExpireAccess == 2    \* the access token manager's Expire (ticks)
ExpireRefresh == 3   \* the refresh token manager's Expire (ticks)

(***************************************************************************)
(* Program constants.                                                      *)
(***************************************************************************)
StatusOK == 200
StatusNoContent == 204
StatusUnauthorized == 401
StatusTooManyRequests == 429
StatusInternalServerError == 500
StatusGatewayTimeout == 504

authorizationHeader == "authorization"
bearerPrefix == "Bearer"

(***************************************************************************)
(* strings.HasPrefix and the slice s[n:].                                  *)
(***************************************************************************)
HasPrefix(s, prefix) ==
    /\ Len(s) >= Len(prefix)
    /\ SubSeq(s, 1, Len(prefix)) = prefix

SliceFrom(s, n) == SubSeq(s, n + 1, Len(s))

\* the positions of the one-character separator sep in s
SepPositions(s, sep) == { i \in 1..Len(s) : SubSeq(s, i, i) = sep }

\* strings.Split(s, sep) for a one-character separator: the pieces between
\* consecutive separators, in order
Split(s, sep) ==
    LET P == SepPositions(s, sep) \cup {0, Len(s) + 1}
        pos(k) == CHOOSE i \in P : Cardinality({ j \in P : j < i }) = k
    IN  [k \in 1..(Cardinality(P) - 1) |-> SubSeq(s, pos(k - 1) + 1, pos(k) - 1)]

\* the value of a singleton set: Only({ F(x) : x \in {e} }) is F(e) with e
\* evaluated once
Only(S) == CHOOSE x \in S : TRUE

(***************************************************************************)
(* Claims and the token codec (jwtcore.TokenManagerServer over the         *)
(* golang-jwt parser).  A claims value carries the caller-defined uid and  *)
(* the registered fields; 0 and "" are the zero values (field absent).     *)
(* A token string is "header.payload.signature".                           *)
(***************************************************************************)
ZeroClaims ==
    [uid |-> 0, sub |-> "", aud |-> "", nbf |-> 0,
     iss |-> "", exp |-> 0, iat |-> 0, jti |-> ""]

MaxNum == MaxNow + ExpireAccess + ExpireRefresh + MaxUid   \* largest number a payload can carry

\* strconv.Atoi over the numbers a payload can carry; -1 when s is no number
ParseNat(s) ==
    IF \E n \in 0..MaxNum : ToString(n) = s
    THEN CHOOSE n \in 0..MaxNum : ToString(n) = s
    ELSE -1

\* jwt.NewNumericDate(t): the instant t truncated to jwt.TimePrecision, one
\* second; instants and durations count ticks, TicksPerSecond to the second
NewNumericDate(t) == t - (t % TicksPerSecond)

\* the payload segment: the claims' fields in a fixed order
EncodeClaims(c) ==
    "u" \o ToString(c.uid) \o ",s" \o c.sub \o ",d" \o c.aud
        \o ",n" \o ToString(c.nbf) \o ",i" \o c.iss
        \o ",e" \o ToString(c.exp) \o ",a" \o ToString(c.iat) \o ",j" \o c.jti

\* decoding of a payload segment: [ok, clm]
DecodeClaims(p) ==
    Only({ LET tagged(i, tag) == Len(f[i]) >= 1 /\ SubSeq(f[i], 1, 1) = tag
               val(i) == SliceFrom(f[i], 1)
               uid == ParseNat(val(1))
               nbf == ParseNat(val(4))
               exp == ParseNat(val(6))
               iat == ParseNat(val(7))
           IN  IF /\ Len(f) = 8
                  /\ tagged(1, "u") /\ tagged(2, "s") /\ tagged(3, "d") /\ tagged(4, "n")
                  /\ tagged(5, "i") /\ tagged(6, "e") /\ tagged(7, "a") /\ tagged(8, "j")
                  /\ uid >= 0 /\ nbf >= 0 /\ exp >= 0 /\ iat >= 0
               THEN [ok |-> TRUE,
                     clm |-> [uid |-> uid, sub |-> val(2), aud |-> val(3), nbf |-> nbf,
                              iss |-> val(5), exp |-> exp, iat |-> iat, jti |-> val(8)]]
               ELSE [ok |-> FALSE, clm |-> ZeroClaims] :
           f \in {Split(p, ",")} })

\* the signing methods; the header segment of a token names its method
SigningMethods == {"HS256", "HS512"}

TokenHeader == "HS256"     \* {"alg":"HS256","typ":"JWT"}

\* the HMAC of header and payload under key
Sign(key, header, payload) == "S" \o key \o "/" \o header \o "/" \o payload

\* jwt.NewWithClaims(method, c).SignedString(key)
SignedString(method, key, c) ==
    method \o "." \o EncodeClaims(c) \o "." \o Sign(key, method, EncodeClaims(c))

\* the methods jwt.GetSigningMethod knows: "none" is registered, and its
\* Verify refuses every key but the library's own constant
RegisteredMethods == SigningMethods \cup {"none"}

\* jwt.ParseWithClaims: "" when the token is valid at instant tnow, else the
\* cause; the method is the one the token's header names.  The segments are
\* decoded first, then the method is looked up, then the signature is
\* verified, then the claims are validated; the validator collects every
\* failed check, so a token both expired and not yet valid reports both
ParseWithClaims(token, key, tnow) ==
    Only({ IF Len(parts) # 3 THEN [err |-> "malformed", clm |-> ZeroClaims]
           ELSE Only({ IF ~decoded.ok
                       THEN [err |-> "malformed", clm |-> ZeroClaims]
                       ELSE IF parts[1] \notin RegisteredMethods
                       THEN [err |-> "unverifiable", clm |-> decoded.clm]
                       ELSE IF parts[1] = "none"
                       THEN [err |-> "noneSignature", clm |-> decoded.clm]
                       ELSE IF parts[3] # Sign(key, parts[1], parts[2])
                       THEN [err |-> "signature", clm |-> decoded.clm]
                       ELSE [err |-> CASE  (decoded.clm.exp # 0 /\ ~(tnow < decoded.clm.exp))
                                           /\ (decoded.clm.nbf # 0 /\ tnow < decoded.clm.nbf)
                                             -> "expired,notValidYet"
                                        [] decoded.clm.exp # 0 /\ ~(tnow < decoded.clm.exp)
                                             -> "expired"
                                        [] decoded.clm.nbf # 0 /\ tnow < decoded.clm.nbf
                                             -> "notValidYet"
                                        [] OTHER -> "",
                             clm |-> decoded.clm] :
                       decoded \in {DecodeClaims(parts[2])} }) :
           parts \in {Split(token, ".")} })

\* the errors of package jwt that errors.Is finds in the error
\* jwt.ParseWithClaims returns for a cause
ParseErrorChain(cause) ==
    CASE cause = "malformed" -> {"ErrTokenMalformed"}
      [] cause = "unverifiable" -> {"ErrTokenUnverifiable"}
      [] cause = "noneSignature" -> {"ErrTokenSignatureInvalid", "ErrTokenUnverifiable"}
      [] cause = "signature" -> {"ErrTokenSignatureInvalid", "ErrSignatureInvalid"}
      [] cause = "expired" -> {"ErrTokenInvalidClaims", "ErrTokenExpired"}
      [] cause = "notValidYet" -> {"ErrTokenInvalidClaims", "ErrTokenNotValidYet"}
      [] cause = "expired,notValidYet" ->
            {"ErrTokenInvalidClaims", "ErrTokenExpired", "ErrTokenNotValidYet"}
      [] OTHER -> {}

\* fmt.Errorf("... " + verb, err): what errors.Is finds in the new error when
\* errors.Is finds the set errs in err; %w wraps err, %v only formats its text
Errorf(verb, errs) == IF verb = "%w" THEN errs ELSE {}

\* NewTokenManagerServer(encryptionKey, expire, WithIssuer(issuer)); timeFunc
\* <<>> is time.Now, <<t>> a function returning the fixed instant t
NewTokenManagerServer(encryptionKey, expire, issuer) ==
    [kind |-> "server", EncryptionKey |-> encryptionKey, DecryptKey |-> encryptionKey,
     Method |-> TokenHeader, Expire |-> expire, Issuer |-> issuer,
     genIDFn |-> "", timeFunc |-> <<>>]

\* the test double of the token manager
TestTokenManager(generateErr, verifyClaims, verifyErr) ==
    [kind |-> "test", generateToken |-> "", generateErr |-> generateErr,
     verifyClaims |-> verifyClaims, verifyErr |-> verifyErr]

\* t.timeFunc() while the wall clock reads tnow
timeFunc(t, tnow) == IF t.timeFunc = <<>> THEN tnow ELSE t.timeFunc[1]

\* mutant of GenerateToken: the caller's ID is kept
GenerateToken_KeepsCallerID(t, clm, tnow) ==
    IF t.kind = "test"
    THEN [token |-> t.generateToken, err |-> t.generateErr]
    ELSE [token |-> SignedString(t.Method, t.EncryptionKey,
                       [clm EXCEPT !.iss = t.Issuer,
                                   !.exp = NewNumericDate(timeFunc(t, tnow) + t.Expire),
                                   !.iat = NewNumericDate(timeFunc(t, tnow))]),
          err |-> FALSE]

\* TokenManager.GenerateToken at instant tnow: [token, err]
GenerateToken(t, clm, tnow) ==
    IF t.kind = "test"
    THEN [token |-> t.generateToken, err |-> t.generateErr]
    ELSE [token |-> SignedString(t.Method, t.EncryptionKey,
                       [clm EXCEPT !.iss = t.Issuer,
                                   !.exp = NewNumericDate(timeFunc(t, tnow) + t.Expire),
                                   !.iat = NewNumericDate(timeFunc(t, tnow)),
                                   !.jti = t.genIDFn]),
          err |-> FALSE]

\* mutant of VerifyToken: the expiry is compared with <= instead of <
VerifyToken_ExpiryInclusive(t, token, tnow) ==
    IF t.kind = "test"
    THEN [clm |-> t.verifyClaims, err |-> IF t.verifyErr THEN "test" ELSE "", unwraps |-> {}]
    ELSE LET withClaims == ParseWithClaims(token, t.DecryptKey, timeFunc(t, tnow))
             late == ParseWithClaims(token, t.DecryptKey, timeFunc(t, tnow) - 1)
         IN  IF withClaims.err = "expired" /\ late.err = ""
             THEN [clm |-> late.clm, err |-> "", unwraps |-> {}]
             ELSE IF withClaims.err # ""
             THEN [clm |-> ZeroClaims, err |-> withClaims.err,
                   unwraps |-> Errorf("%v", ParseErrorChain(withClaims.err))]
             ELSE [clm |-> withClaims.clm, err |-> "", unwraps |-> {}]

\* mutant of VerifyToken: the parsed claims are returned with the error
VerifyToken_ReturnsParsedClaims(t, token, tnow) ==
    IF t.kind = "test"
    THEN [clm |-> t.verifyClaims, err |-> IF t.verifyErr THEN "test" ELSE "", unwraps |-> {}]
    ELSE LET withClaims == ParseWithClaims(token, t.DecryptKey, timeFunc(t, tnow))
         IN  [clm |-> withClaims.clm, err |-> withClaims.err,
              unwraps |-> Errorf("%v", ParseErrorChain(withClaims.err))]

\* TokenManager.VerifyToken at instant tnow: [clm, err, unwraps]; err = "" is
\* nil, otherwise the cause the error's text names; unwraps are the errors
\* errors.Is finds in the returned error
VerifyToken(t, token, tnow) ==
    IF t.kind = "test"
    THEN [clm |-> t.verifyClaims, err |-> IF t.verifyErr THEN "test" ELSE "", unwraps |-> {}]
    ELSE Only({ IF withClaims.err # ""
                THEN [clm |-> ZeroClaims, err |-> withClaims.err,
                      unwraps |-> Errorf("%v", ParseErrorChain(withClaims.err))]
                ELSE [clm |-> withClaims.clm, err |-> "", unwraps |-> {}] :
                withClaims \in {ParseWithClaims(token, t.DecryptKey, timeFunc(t, tnow))} })


(***************************************************************************)
(* The token managers and the requests of the model.                       *)
(***************************************************************************)
AccessTM == NewTokenManagerServer("ak", ExpireAccess, "")
RefreshTM == NewTokenManagerServer("rk", ExpireRefresh, "")

Uids == 1..MaxUid

\* tokens a client can present: issued by either manager at an earlier instant,
\* or not a token at all
IssuedTokens(t) ==
    { GenerateToken(t, [ZeroClaims EXCEPT !.uid = u], at).token :
        u \in Uids, at \in 0..MaxIssue }

SomeToken == GenerateToken(AccessTM, [ZeroClaims EXCEPT !.uid = 1], 0).token

SomeRefreshToken == GenerateToken(RefreshTM, [ZeroClaims EXCEPT !.uid = 1], 0).token

\* an access token whose not-before is the first whole second
NotYetValidToken ==
    GenerateToken(AccessTM, [ZeroClaims EXCEPT !.uid = 1, !.nbf = TicksPerSecond], 0).token

\* tokens presented to the authentication middleware, whose manager is AccessTM
TokenPool ==
    IssuedTokens(AccessTM) \cup {SomeRefreshToken, NotYetValidToken, "bad_token", "HS256.x.y"}

\* tokens presented to the refresh handler, whose manager is RefreshTM
RefreshTokenPool == IssuedTokens(RefreshTM) \cup {SomeToken, "bad_token", "HS256.x.y"}

\* test doubles: a manager whose GenerateToken fails and whose VerifyToken
\* accepts anything as uid 1
FailingTM == TestTokenManager(TRUE, [ZeroClaims EXCEPT !.uid = 1], FALSE)

\* values of the authorization request header; "" is "header absent"
AuthorizationValues(pool) ==
    {""} \cup { "Bearer " \o t : t \in pool \cup {""} }
         \cup { "Bearer" \o SomeToken, "bearer " \o SomeToken, "Basic " \o SomeToken }

\* the routes of registerRoutes and the route pattern gin matches a path to
Paths == {"/", "/login", "/user/1"}

FullPath(path) == IF path = "/user/1" THEN "/user/:id" ELSE path

Requests == [path : Paths, authorization : AuthorizationValues(TokenPool)]

\* the requests sent to a handler built once
BuiltRequests == [path : Paths, authorization : AuthorizationValues({SomeToken})]

RefreshRequests == [path : {"/refresh"}, authorization : AuthorizationValues(RefreshTokenPool)]

(***************************************************************************)
(* gin.Context: the abort flag, the response status, headers and body, the *)
(* request's context values and gin keys, and the calls made on behalf of  *)
(* the request (trace: their names in order; *Args: their arguments).      *)
(***************************************************************************)
NewContext ==
    [aborted |-> FALSE, status |-> StatusOK,
     ctxClaims |-> <<>>,      \* request context value under claimsKey{}
     ctxStrClaims |-> <<>>,   \* request context value under the string "claims"
     keyClaims |-> <<>>,      \* gin key "claims"
     ctxAccess |-> <<>>, ctxRefresh |-> <<>>,   \* context values of custom setters
     hdrAccess |-> <<>>, hdrRefresh |-> <<>>,   \* x-access-token, x-refresh-token
     body |-> <<>>,
     trace |-> <<>>, verifyArgs |-> <<>>, setClaimsArgs |-> <<>>,
     genAccessArgs |-> <<>>, genRefreshArgs |-> <<>>]

\* no request served yet
Unserved ==
    [served |-> FALSE, req |-> [path |-> "", authorization |-> ""], at |-> 0,
     c |-> NewContext]

Called(c, name) == [c EXCEPT !.trace = Append(@, name)]

Calls(c, name) == Len(SelectSeq(c.trace, LAMBDA e : e = name))

AbortWithStatus(c, code) == [c EXCEPT !.aborted = TRUE, !.status = code]

Status(c, code) == [c EXCEPT !.status = code]

(***************************************************************************)
(* MiddlewareBuilder of the authentication middleware.                     *)
(***************************************************************************)
\* mutant of extractToken: the prefix lacks the space
extractToken_NoSpace(req) ==
    LET authCode == req.authorization
        prefix == bearerPrefix
    IN  IF authCode = "" THEN ""
        ELSE IF HasPrefix(authCode, prefix) THEN SliceFrom(authCode, Len(prefix))
        ELSE ""

\* extractToken: the token after the exact prefix "Bearer ", or ""
extractToken(req) ==
    LET authCode == req.authorization
        prefix == bearerPrefix \o " "
    IN  IF authCode = "" THEN ""
        ELSE IF HasPrefix(authCode, prefix) THEN SliceFrom(authCode, Len(prefix))
        ELSE ""

\* ignoreFullPaths(paths...): the predicate's value on a request
ignoreFullPaths(paths, req) == FullPath(req.path) \in paths

\* staticIgnorePaths(paths...): the predicate's value on a request
staticIgnorePaths(paths, req) == req.path \in paths

\* NewMiddlewareBuilder(m) of package pkg: "auth/jwt" attaches the claims to the
\* request context, the older "jwt" sets the gin key
NewMiddlewareBuilder(pkg, m) ==
    [ignorePath |-> [kind |-> "never", paths |-> {}],
     extractToken |-> [kind |-> "header", token |-> ""],
     setClaims |-> IF pkg = "auth/jwt" THEN "context" ELSE "ginKey",
     TokenManager |-> m]

\* mutant of IgnorePathFunc: a predicate of the kind already set is extended by
\* the new paths
IgnorePathFunc_Accumulates(m, fn) ==
    [m EXCEPT !.ignorePath = IF @.kind = fn.kind
                             THEN [kind |-> fn.kind, paths |-> @.paths \cup fn.paths]
                             ELSE fn]

IgnorePathFunc(m, fn) == [m EXCEPT !.ignorePath = fn]

IgnoreFullPath(m, fullPaths) == IgnorePathFunc(m, [kind |-> "fullPath", paths |-> fullPaths])

IgnorePath(m, paths) == IgnorePathFunc(m, [kind |-> "path", paths |-> paths])

SetExtractTokenFunc(m, fn) == [m EXCEPT !.extractToken = fn]

SetClaimsFunc(m, fn) == [m EXCEPT !.setClaims = fn]

\* m.ignorePath(c)
InvokeIgnorePath(m, req) ==
    CASE m.ignorePath.kind = "never" -> FALSE
      [] m.ignorePath.kind = "fullPath" -> ignoreFullPaths(m.ignorePath.paths, req)
      [] m.ignorePath.kind = "path" -> staticIgnorePaths(m.ignorePath.paths, req)

\* m.extractToken(c)
InvokeExtractToken(m, req) ==
    IF m.extractToken.kind = "header" THEN extractToken(req) ELSE m.extractToken.token

\* m.setClaims(c, clm): the default attaches to the request context under
\* claimsKey{}; the older package's default sets the gin key "claims"; a custom
\* function attaches to the request context under the string "claims"
InvokeSetClaims(m, c, clm) ==
    LET c1 == [Called(c, "setClaims") EXCEPT !.setClaimsArgs = Append(@, clm)]
    IN  CASE m.setClaims = "context" -> [c1 EXCEPT !.ctxClaims = <<clm>>]
          [] m.setClaims = "ginKey" -> [c1 EXCEPT !.keyClaims = <<clm>>]
          [] m.setClaims = "strContext" -> [c1 EXCEPT !.ctxStrClaims = <<clm>>]

\* mutant of Build: no return after the abort on a verification error
Build_NoReturnOnVerifyError(m, c, req, tnow) ==
    IF InvokeIgnorePath(m, req) THEN c
    ELSE LET tokenStr == InvokeExtractToken(m, req)
             c1 == Called(c, "extractToken")
         IN  IF tokenStr = "" THEN AbortWithStatus(c1, StatusUnauthorized)
             ELSE LET v == VerifyToken(m.TokenManager, tokenStr, tnow)
                      c2 == [Called(c1, "VerifyToken") EXCEPT
                                !.verifyArgs = Append(@, tokenStr)]
                  IN  IF v.err # ""
                      THEN InvokeSetClaims(m, AbortWithStatus(c2, StatusUnauthorized), v.clm)
                      ELSE InvokeSetClaims(m, c2, v.clm)

\* mutant of Build: a verification error is answered as a server error
Build_ServerErrorOnVerifyError(m, c, req, tnow) ==
    IF InvokeIgnorePath(m, req) THEN c
    ELSE LET tokenStr == InvokeExtractToken(m, req)
             c1 == Called(c, "extractToken")
         IN  IF tokenStr = "" THEN AbortWithStatus(c1, StatusUnauthorized)
             ELSE LET v == VerifyToken(m.TokenManager, tokenStr, tnow)
                      c2 == [Called(c1, "VerifyToken") EXCEPT
                                !.verifyArgs = Append(@, tokenStr)]
                  IN  IF v.err # "" THEN AbortWithStatus(c2, StatusInternalServerError)
                      ELSE InvokeSetClaims(m, c2, v.clm)

\* mutant of Build: the token is extracted before the exemption is checked
Build_ExtractsFirst(m, c, req, tnow) ==
    LET tokenStr == InvokeExtractToken(m, req)
        c1 == Called(c, "extractToken")
    IN  IF tokenStr = "" THEN AbortWithStatus(c1, StatusUnauthorized)
        ELSE IF InvokeIgnorePath(m, req) THEN c1
        ELSE LET v == VerifyToken(m.TokenManager, tokenStr, tnow)
                 c2 == [Called(c1, "VerifyToken") EXCEPT
                           !.verifyArgs = Append(@, tokenStr)]
             IN  IF v.err # "" THEN AbortWithStatus(c2, StatusUnauthorized)
                 ELSE InvokeSetClaims(m, c2, v.clm)

\* the handler returned by MiddlewareBuilder.Build, run on context c
Build(m, c, req, tnow) ==
    IF InvokeIgnorePath(m, req) THEN c
    ELSE LET tokenStr == InvokeExtractToken(m, req)
             c1 == Called(c, "extractToken")
         IN  IF tokenStr = "" THEN AbortWithStatus(c1, StatusUnauthorized)
             ELSE LET c2 == [Called(c1, "VerifyToken") EXCEPT
                                !.verifyArgs = Append(@, tokenStr)]
                  IN  Only({ IF v.err # "" THEN AbortWithStatus(c2, StatusUnauthorized)
                             ELSE InvokeSetClaims(m, c2, v.clm) :
                             v \in {VerifyToken(m.TokenManager, tokenStr, tnow)} })

\* ClaimsFromContext(ctx): [clm, ok]
ClaimsFromContext(c) ==
    IF c.ctxClaims = <<>> THEN [clm |-> ZeroClaims, ok |-> FALSE]
    ELSE [clm |-> c.ctxClaims[1], ok |-> TRUE]

\* the route handlers of registerRoutes: ctx.Status(http.StatusOK)
RouteHandler(c) == Status(Called(c, "handler"), StatusOK)

\* server.Use(m.Build()); registerRoutes(server); server.ServeHTTP(recorder, req)
ServeAuth(m, req, tnow) ==
    LET c == Build(m, NewContext, req, tnow)
    IN  IF c.aborted THEN c ELSE RouteHandler(c)


(***************************************************************************)
(* Requests in service at once through one built middleware: the engine    *)
(* gives each request a gin.Context of its own, runs the middleware on it  *)
(* and later the route handler, which reads the claims.                    *)
(***************************************************************************)
NoClaims == [clm |-> ZeroClaims, ok |-> FALSE]

IdleInflight ==
    [pc |-> "idle", req |-> [path |-> "", authorization |-> ""], c |-> NewContext,
     got |-> NoClaims]

\* the requests sent while others are in service: an exempt path without a
\* token, a protected path without a token, and one token per user
ConcRequests ==
    { [path |-> "/login", authorization |-> ""], [path |-> "/", authorization |-> ""] }
      \cup { [path |-> "/",
              authorization |-> "Bearer " \o
                  GenerateToken(AccessTM, [ZeroClaims EXCEPT !.uid = u], 0).token] :
             u \in Uids }

\* mutant of ServeHTTP: one gin.Context serves every request in service
ServeHTTP_SharedContext(cs, r, req, m, tnow) ==
    LET c == Build(m, NewContext, req, tnow)
    IN  [i \in DOMAIN cs |->
            IF i = r
            THEN [pc |-> IF c.aborted THEN "done" ELSE "next", req |-> req, c |-> c,
                  got |-> NoClaims]
            ELSE IF cs[i].pc = "next" THEN [cs[i] EXCEPT !.c = c]
            ELSE cs[i]]

\* engine.ServeHTTP for request req in slot r: a gin.Context of the request's
\* own is run through the middleware; an aborted request is finished
ServeHTTP(cs, r, req, m, tnow) ==
    LET c == Build(m, NewContext, req, tnow)
    IN  [cs EXCEPT ![r] = [pc |-> IF c.aborted THEN "done" ELSE "next", req |-> req,
                           c |-> c, got |-> NoClaims]]

\* the claims the route handler reads: ClaimsFromContext(c.Request.Context()),
\* or c.Get("claims") in the older package
ReadClaims(m, c) ==
    IF m.setClaims = "ginKey"
    THEN IF c.keyClaims = <<>> THEN NoClaims ELSE [clm |-> c.keyClaims[1], ok |-> TRUE]
    ELSE ClaimsFromContext(c)

(***************************************************************************)
(* RefreshManager.                                                         *)
(***************************************************************************)
WithRotateRefreshToken(isRotate) == [opt |-> "rotateRefreshToken", val |-> <<isRotate>>]
WithRefreshAuthHandler(fn) == [opt |-> "refreshAuthHandler", val |-> <<fn>>]
WithGetClaims(fn) == [opt |-> "getClaims", val |-> <<fn>>]
WithAccessTokenSetter(fn) == [opt |-> "accessTokenSetterFn", val |-> <<fn>>]
WithRefreshTokenSetter(fn) == [opt |-> "refreshTokenSetterFn", val |-> <<fn>>]
WithResponseSetter(fn) == [opt |-> "responseHandler", val |-> <<fn>>]

\* opt.apply(m)
apply(opt, m) ==
    CASE opt.opt = "rotateRefreshToken" -> [m EXCEPT !.rotateRefreshToken = opt.val[1]]
      [] opt.opt = "refreshAuthHandler" -> [m EXCEPT !.refreshAuthHandler = opt.val[1]]
      [] opt.opt = "getClaims" -> [m EXCEPT !.getClaims = opt.val[1]]
      [] opt.opt = "accessTokenSetterFn" -> [m EXCEPT !.accessTokenSetterFn = opt.val[1]]
      [] opt.opt = "refreshTokenSetterFn" -> [m EXCEPT !.refreshTokenSetterFn = opt.val[1]]
      [] opt.opt = "responseHandler" -> [m EXCEPT !.responseHandler = opt.val[1]]

\* RefreshManager.WithOptions: the options applied in order to a copy
RECURSIVE WithOptions(_, _)
WithOptions(m, opts) ==
    IF opts = <<>> THEN m
    ELSE WithOptions(apply(Head(opts), m), Tail(opts))

\* mutant of NewRefreshManager: the default getter reads the key the other
\* package's authenticator writes
NewRefreshManager_MismatchedGetter(pkg, accessTM, refreshTM, options) ==
    WithOptions(
        [accessTM |-> accessTM, refreshTM |-> refreshTM,
         rotateRefreshToken |-> FALSE,
         refreshAuthHandler |->
             [kind |-> "middleware", m |-> NewMiddlewareBuilder(pkg, refreshTM)],
         getClaims |-> IF pkg = "auth/jwt" THEN "ginKey" ELSE "context",
         accessTokenSetterFn |-> "header",
         refreshTokenSetterFn |-> "header",
         responseHandler |-> "default"],
        options)

NewRefreshManager(pkg, accessTM, refreshTM, options) ==
    WithOptions(
        [accessTM |-> accessTM, refreshTM |-> refreshTM,
         rotateRefreshToken |-> FALSE,
         refreshAuthHandler |->
             [kind |-> "middleware", m |-> NewMiddlewareBuilder(pkg, refreshTM)],
         getClaims |-> IF pkg = "auth/jwt" THEN "context" ELSE "ginKey",
         accessTokenSetterFn |-> "header",
         refreshTokenSetterFn |-> "header",
         responseHandler |-> "default"],
        options)

\* m.refreshAuthHandler(c): a handler built by a MiddlewareBuilder, or the
\* test's func(c *gin.Context) { return }
InvokeRefreshAuthHandler(m, c, req, tnow) ==
    IF m.refreshAuthHandler.kind = "middleware"
    THEN Build(m.refreshAuthHandler.m, Called(c, "refreshAuthHandler"), req, tnow)
    ELSE Called(c, "refreshAuthHandler")

\* m.getClaims(c): [clm, ok]
InvokeGetClaims(m, c) ==
    LET v == CASE m.getClaims = "context" -> c.ctxClaims
               [] m.getClaims = "ginKey" -> c.keyClaims
               [] m.getClaims = "strContext" -> c.ctxStrClaims
    IN  IF v = <<>> THEN [clm |-> ZeroClaims, ok |-> FALSE]
        ELSE [clm |-> v[1], ok |-> TRUE]

\* m.accessTokenSetterFn(c, token): the response header x-access-token, or the
\* test's setter storing the token in the request context
InvokeAccessTokenSetter(m, c, token) ==
    IF m.accessTokenSetterFn = "header"
    THEN [Called(c, "accessTokenSetterFn") EXCEPT !.hdrAccess = <<token>>]
    ELSE [Called(c, "accessTokenSetterFn") EXCEPT !.ctxAccess = <<token>>]

\* m.refreshTokenSetterFn(c, token)
InvokeRefreshTokenSetter(m, c, token) ==
    IF m.refreshTokenSetterFn = "header"
    THEN [Called(c, "refreshTokenSetterFn") EXCEPT !.hdrRefresh = <<token>>]
    ELSE [Called(c, "refreshTokenSetterFn") EXCEPT !.ctxRefresh = <<token>>]

\* m.responseHandler(c): status 204, or the test's JSON response of the tokens
\* stored in the request context
InvokeResponseHandler(m, c) ==
    LET c1 == Called(c, "responseHandler")
    IN  IF m.responseHandler = "default" THEN Status(c1, StatusNoContent)
        ELSE IF c1.ctxAccess = <<>> \/ c1.ctxRefresh = <<>>
        THEN Status(c1, StatusInternalServerError)
        ELSE [Status(c1, StatusOK) EXCEPT !.body = c1.ctxAccess \o c1.ctxRefresh]

\* mutant of HandlerRotate: the refresh token is rotated whatever the option
HandlerRotate_AlwaysRotates(m, c, clm, tnow) ==
    Only({ IF refresh.err
           THEN Status([Called(c, "refreshTM.GenerateToken") EXCEPT
                           !.genRefreshArgs = Append(@, clm)],
                       StatusInternalServerError)
           ELSE InvokeResponseHandler(m,
                   InvokeRefreshTokenSetter(m,
                       [Called(c, "refreshTM.GenerateToken") EXCEPT
                           !.genRefreshArgs = Append(@, clm)],
                       refresh.token)) :
           refresh \in {GenerateToken(m.refreshTM, clm, tnow)} })

\* mutant of HandlerRotate: the response is finalized before the rotation
HandlerRotate_RespondsFirst(m, c, clm, tnow) ==
    IF m.rotateRefreshToken
    THEN Only({ IF refresh.err
                THEN Status([Called(InvokeResponseHandler(m, c), "refreshTM.GenerateToken")
                                EXCEPT !.genRefreshArgs = Append(@, clm)],
                            StatusInternalServerError)
                ELSE InvokeRefreshTokenSetter(m,
                        [Called(InvokeResponseHandler(m, c), "refreshTM.GenerateToken")
                            EXCEPT !.genRefreshArgs = Append(@, clm)],
                        refresh.token) :
                refresh \in {GenerateToken(m.refreshTM, clm, tnow)} })
    ELSE InvokeResponseHandler(m, c)

\* mutant of HandlerRotate: the refresh manager is handed the claims as the
\* access manager stamped them
HandlerRotate_PassesStampedClaims(m, c, clm, tnow) ==
    IF m.rotateRefreshToken
    THEN Only({ IF refresh.err
                THEN Status([Called(c, "refreshTM.GenerateToken") EXCEPT
                                !.genRefreshArgs = Append(@, [clm EXCEPT !.iss = "access"])],
                            StatusInternalServerError)
                ELSE InvokeResponseHandler(m,
                        InvokeRefreshTokenSetter(m,
                            [Called(c, "refreshTM.GenerateToken") EXCEPT
                                !.genRefreshArgs = Append(@, [clm EXCEPT !.iss = "access"])],
                            refresh.token)) :
                refresh \in {GenerateToken(m.refreshTM, [clm EXCEPT !.iss = "access"], tnow)} })
    ELSE InvokeResponseHandler(m, c)

\* mutant of HandlerRotate: no return after a failed refresh token generation
HandlerRotate_IgnoresGenerateError(m, c, clm, tnow) ==
    IF m.rotateRefreshToken
    THEN Only({ InvokeResponseHandler(m,
                    InvokeRefreshTokenSetter(m,
                        [Called(c, "refreshTM.GenerateToken") EXCEPT
                            !.genRefreshArgs = Append(@, clm)],
                        refresh.token)) :
                refresh \in {GenerateToken(m.refreshTM, clm, tnow)} })
    ELSE InvokeResponseHandler(m, c)

\* Handler after the access token was set: the rotation of the refresh token
\* and the response
HandlerRotate(m, c, clm, tnow) ==
    IF m.rotateRefreshToken
    THEN Only({ IF refresh.err
                THEN Status([Called(c, "refreshTM.GenerateToken") EXCEPT
                                !.genRefreshArgs = Append(@, clm)],
                            StatusInternalServerError)
                ELSE InvokeResponseHandler(m,
                        InvokeRefreshTokenSetter(m,
                            [Called(c, "refreshTM.GenerateToken") EXCEPT
                                !.genRefreshArgs = Append(@, clm)],
                            refresh.token)) :
                refresh \in {GenerateToken(m.refreshTM, clm, tnow)} })
    ELSE InvokeResponseHandler(m, c)

\* mutant of HandlerAccess: no return after a failed access token generation
HandlerAccess_IgnoresGenerateError(m, c, clm, tnow) ==
    Only({ HandlerRotate(m,
               InvokeAccessTokenSetter(m,
                   [Called(c, "accessTM.GenerateToken") EXCEPT
                       !.genAccessArgs = Append(@, clm)],
                   access.token),
               clm, tnow) :
           access \in {GenerateToken(m.accessTM, clm, tnow)} })

\* Handler after the claims were obtained: the access token
HandlerAccess(m, c, clm, tnow) ==
    Only({ IF access.err
           THEN Status([Called(c, "accessTM.GenerateToken") EXCEPT
                           !.genAccessArgs = Append(@, clm)],
                       StatusInternalServerError)
           ELSE HandlerRotate(m,
                   InvokeAccessTokenSetter(m,
                       [Called(c, "accessTM.GenerateToken") EXCEPT
                           !.genAccessArgs = Append(@, clm)],
                       access.token),
                   clm, tnow) :
           access \in {GenerateToken(m.accessTM, clm, tnow)} })

\* mutant of HandlerClaims: the abort of the authentication handler is not checked
HandlerClaims_NoAbortCheck(m, c, tnow) ==
    Only({ IF ~got.ok THEN Status(Called(c, "getClaims"), StatusInternalServerError)
           ELSE Only({ HandlerAccess(m, c2, got.clm, tnow) :
                       c2 \in {Called(c, "getClaims")} }) :
           got \in {InvokeGetClaims(m, c)} })

\* Handler after the authentication handler returned: the abort check and
\* the claims getter
HandlerClaims(m, c, tnow) ==
    IF c.aborted THEN c
    ELSE Only({ IF ~got.ok THEN Status(Called(c, "getClaims"), StatusInternalServerError)
                ELSE Only({ HandlerAccess(m, c2, got.clm, tnow) :
                            c2 \in {Called(c, "getClaims")} }) :
                got \in {InvokeGetClaims(m, c)} })

\* mutant of Handler: a refresh token used in a rotation is not accepted again
Handler_RejectsRotatedToken(m, c, req, tnow) ==
    IF m.rotateRefreshToken
       /\ \E i \in 1..Len(replay.presented) : replay.presented[i] = extractToken(req)
    THEN AbortWithStatus(Called(c, "refreshAuthHandler"), StatusUnauthorized)
    ELSE Only({ HandlerClaims(m, c1, tnow) :
                c1 \in {InvokeRefreshAuthHandler(m, c, req, tnow)} })

\* RefreshManager.Handler run on context c
Handler(m, c, req, tnow) ==
    Only({ HandlerClaims(m, c1, tnow) :
           c1 \in {InvokeRefreshAuthHandler(m, c, req, tnow)} })

(***************************************************************************)
(* The active-count limiter behind the middleware, cnt: its ceiling        *)
(* cnt.max and its count per key cnt.cnt.  Limit counts the request in and *)
(* reports whether the count exceeds the ceiling; Decr counts it out.      *)
(* Each call is atomic.  A failing call changes nothing.                   *)
(***************************************************************************)
IPs == 1..NumIPs

LimiterKeys ==
    {"all_req_active_limiter", "test"} \cup { "ip_active_limiter:" \o ToString(ip) : ip \in IPs }

\* the ways a Limit call fails: not at all, with (false, err), with (true, err)
LimitFailures == {"", "error", "errorLimited"}

\* limiter.Limit(ctx, key): [counter, limited, err]
Limit(cnt, key, fail) ==
    IF fail # "" THEN [counter |-> cnt, limited |-> fail = "errorLimited", err |-> TRUE]
    ELSE [counter |-> [cnt EXCEPT !.cnt[key] = @ + 1],
          limited |-> cnt.cnt[key] + 1 > cnt.max, err |-> FALSE]

\* limiter.Decr(ctx, key): [counter, err]
Decr(cnt, key, fail) ==
    IF fail THEN [counter |-> cnt, err |-> TRUE]
    ELSE [counter |-> [cnt EXCEPT !.cnt[key] = @ - 1], err |-> FALSE]

(***************************************************************************)
(* activelimit.Builder.                                                    *)
(***************************************************************************)
NewBuilder == [genKeyFn |-> "global"]

\* activelimit's Builder.SetKeyGenFunc with a function returning the fixed key
SetActiveKeyGenFunc(b, key) == [b EXCEPT !.genKeyFn = key]

SetKeyGenFuncByIP(b) == [b EXCEPT !.genKeyFn = "ip"]

\* b.genKeyFn(ctx) for a request from client address ip
genKeyFn(b, ip) ==
    CASE b.genKeyFn = "global" -> "all_req_active_limiter"
      [] b.genKeyFn = "ip" -> "ip_active_limiter:" \o ToString(ip)
      [] OTHER -> b.genKeyFn

\* b.limit(ctx)
limit(b, cnt, ip, fail) == Limit(cnt, genKeyFn(b, ip), fail)

\* b.decr(ctx)
decr(b, cnt, ip, fail) == Decr(cnt, genKeyFn(b, ip), fail)

\* a request that has not reached the middleware
IdleRequest ==
    [pc |-> "idle", ip |-> 0, key |-> "", limited |-> FALSE, err |-> FALSE,
     acquired |-> FALSE, outcome |-> "", status |-> 0, aborted |-> FALSE,
     decrCalls |-> 0, decrKey |-> "", decrErr |-> FALSE]

\* the requests the engine serves at once
Slots == 1..(IF GateReqs > NumReqs THEN GateReqs ELSE NumReqs)

\* mutant of BuildEnter: the limited exit precedes the defer statement
BuildEnter_LimitedExitFirst(b, cnt, ip, fail) ==
    LET res == limit(b, cnt, ip, fail)
        q == [IdleRequest EXCEPT !.ip = ip, !.key = genKeyFn(b, ip),
                                 !.limited = res.limited, !.err = res.err]
    IN  IF res.err
        THEN [counter |-> res.counter,
              req |-> [q EXCEPT !.pc = "done", !.status = StatusInternalServerError,
                               !.aborted = TRUE]]
        ELSE IF res.limited
        THEN [counter |-> res.counter,
              req |-> [q EXCEPT !.pc = "done", !.status = StatusTooManyRequests,
                               !.aborted = TRUE]]
        ELSE [counter |-> res.counter,
              req |-> [q EXCEPT !.pc = "next", !.acquired = TRUE]]

\* mutant of BuildEnter: the defer statement precedes the error exit
BuildEnter_DeferFirst(b, cnt, ip, fail) ==
    LET res == limit(b, cnt, ip, fail)
        q == [IdleRequest EXCEPT !.ip = ip, !.key = genKeyFn(b, ip),
                                 !.limited = res.limited, !.err = res.err]
    IN  IF res.err
        THEN [counter |-> res.counter,
              req |-> [q EXCEPT !.pc = "deferred", !.status = StatusInternalServerError,
                               !.aborted = TRUE]]
        ELSE IF res.limited
        THEN [counter |-> res.counter,
              req |-> [q EXCEPT !.pc = "deferred", !.status = StatusTooManyRequests,
                               !.aborted = TRUE]]
        ELSE [counter |-> res.counter,
              req |-> [q EXCEPT !.pc = "next", !.acquired = TRUE]]

\* Build's handler up to ctx.Next(): the limit call, the error exit (before
\* the defer statement), the defer statement and the limited exit
BuildEnter(b, cnt, ip, fail) ==
    LET res == limit(b, cnt, ip, fail)
        q == [IdleRequest EXCEPT !.ip = ip, !.key = genKeyFn(b, ip),
                                 !.limited = res.limited, !.err = res.err]
    IN  IF res.err
        THEN [counter |-> res.counter,
              req |-> [q EXCEPT !.pc = "done", !.status = StatusInternalServerError,
                               !.aborted = TRUE]]
        ELSE IF res.limited
        THEN [counter |-> res.counter,
              req |-> [q EXCEPT !.pc = "deferred", !.status = StatusTooManyRequests,
                               !.aborted = TRUE]]
        ELSE [counter |-> res.counter,
              req |-> [q EXCEPT !.pc = "next", !.acquired = TRUE]]

\* mutant of BuildNext: Decr is called after ctx.Next() without defer, so that
\* a panic skips it
BuildNext_NoDefer(q, outcome) ==
    [q EXCEPT !.pc = IF outcome = "panic" THEN "done" ELSE "deferred",
              !.outcome = outcome, !.aborted = outcome # "ok",
              !.status = CASE outcome = "ok" -> StatusOK
                           [] outcome = "abort" -> StatusUnauthorized
                           [] outcome = "panic" -> StatusInternalServerError]

\* ctx.Next() returns: the downstream handlers finished normally ("ok", status
\* 200), aborted the request ("abort", status 401) or panicked ("panic", which
\* unwinds through Build's handler to gin's Recovery, status 500); in each
\* case the deferred function runs next
BuildNext(q, outcome) ==
    [q EXCEPT !.pc = "deferred", !.outcome = outcome, !.aborted = outcome # "ok",
              !.status = CASE outcome = "ok" -> StatusOK
                           [] outcome = "abort" -> StatusUnauthorized
                           [] outcome = "panic" -> StatusInternalServerError]

\* mutant of BuildDeferred: an error of Decr aborts the request as a server
\* error
BuildDeferred_AbortsOnDecrError(b, cnt, q, fail) ==
    LET res == decr(b, cnt, q.ip, fail)
    IN  [counter |-> res.counter,
         req |-> [q EXCEPT !.pc = "done", !.decrCalls = @ + 1,
                           !.decrKey = genKeyFn(b, q.ip), !.decrErr = res.err,
                           !.aborted = @ \/ res.err,
                           !.status = IF res.err THEN StatusInternalServerError ELSE @]]

\* mutant of BuildDeferred: Decr is called a second time when it failed
BuildDeferred_RetriesDecr(b, cnt, q, fail) ==
    LET res == decr(b, cnt, q.ip, fail)
    IN  [counter |-> res.counter,
         req |-> [q EXCEPT !.pc = "done", !.decrCalls = IF res.err THEN @ + 2 ELSE @ + 1,
                           !.decrKey = genKeyFn(b, q.ip), !.decrErr = res.err]]

\* the deferred function: b.decr(ctx), its error only logged
BuildDeferred(b, cnt, q, fail) ==
    LET res == decr(b, cnt, q.ip, fail)
    IN  [counter |-> res.counter,
         req |-> [q EXCEPT !.pc = "done", !.decrCalls = @ + 1,
                           !.decrKey = genKeyFn(b, q.ip), !.decrErr = res.err]]


(***************************************************************************)
(* The sliding-window limit middlewares (packages limit and                *)
(* slidewindowlimit), in front of a limiter that returns what the test     *)
(* scripts (testLimiter).                                                  *)
(***************************************************************************)
LimitPkgs == {"limit", "slidewindowlimit", "activelimit"}

\* what a limiter returns: (limited, err)
LimitReturns == [limited : BOOLEAN, err : BOOLEAN]

\* NewBuilder: the key is per client IP in package limit, global in the others
NewLimitBuilder(pkg) ==
    [pkg |-> pkg, genKeyFn |-> IF pkg = "limit" THEN "ip-limiter:" ELSE "global"]

\* Builder.SetKeyGenFunc with a function returning the fixed key fn
SetKeyGenFunc(b, fn) == [b EXCEPT !.genKeyFn = fn]

\* Builder.SetKeyGenFuncByIP of slidewindowlimit and of activelimit
SetLimitKeyGenFuncByIP(b) ==
    [b EXCEPT !.genKeyFn = IF b.pkg = "activelimit" THEN "ip_active_limiter:"
                           ELSE "ip_rate_limiter:"]

\* b.genKeyFn(ctx) for a request from client address ip
limitGenKeyFn(b, ip) ==
    CASE b.genKeyFn = "global" ->
            IF b.pkg = "activelimit" THEN "all_req_active_limiter" ELSE "all_req_rate_limiter"
      [] b.genKeyFn \in {"ip-limiter:", "ip_rate_limiter:", "ip_active_limiter:"} ->
            b.genKeyFn \o ToString(ip)
      [] OTHER -> b.genKeyFn

\* the request's gin.Context in front of the chain
NewLimitContext ==
    [aborted |-> FALSE, status |-> StatusOK, limiterKeys |-> <<>>, decrKeys |-> <<>>,
     ran |-> FALSE]

\* no request in service: pc is "idle"; a request in service is in front of
\* its next handler ("handlers") or unwinding through the deferred functions
\* ("deferred", pending counts those still to run); n is the number of
\* handlers of its route, rets what the limiter has returned to it so far
LimitUnserved ==
    [served |-> FALSE, pc |-> "idle", ip |-> 0, n |-> 0, pending |-> 0, rets |-> <<>>,
     c |-> NewLimitContext]

\* mutant of BuildLimitHandler: the limited flag is looked at before the error
BuildLimitHandler_LimitedFirst(b, c, ip, ret) ==
    LET c1 == [c EXCEPT !.limiterKeys = Append(@, limitGenKeyFn(b, ip))]
    IN  IF ret.limited THEN AbortWithStatus(c1, StatusTooManyRequests)
        ELSE IF ret.err THEN AbortWithStatus(c1, StatusInternalServerError)
        ELSE c1

\* the handler returned by Build, a closure over the builder b, run on context
\* c while the limiter returns ret
BuildLimitHandler(b, c, ip, ret) ==
    LET c1 == [c EXCEPT !.limiterKeys = Append(@, limitGenKeyFn(b, ip))]
    IN  IF ret.err THEN AbortWithStatus(c1, StatusInternalServerError)
        ELSE IF ret.limited THEN AbortWithStatus(c1, StatusTooManyRequests)
        ELSE c1

\* activelimit's deferred function, run when the handler returns: b.decr(ctx)
\* with the key b.genKeyFn gives then; its error is only logged
BuildActiveDeferred(b, c, ip) ==
    [c EXCEPT !.decrKeys = Append(@, limitGenKeyFn(b, ip))]

\* activelimit's handler, a closure over the builder b, run on context c up
\* to ctx.Next() or its return while Limit returns ret: the error exit comes
\* before the defer statement, the limited exit after it
BuildActiveHandler(b, c, ip, ret) ==
    LET c1 == [c EXCEPT !.limiterKeys = Append(@, limitGenKeyFn(b, ip))]
    IN  IF ret.err THEN AbortWithStatus(c1, StatusInternalServerError)
        ELSE IF ret.limited THEN AbortWithStatus(c1, StatusTooManyRequests)
        ELSE c1

\* Build(): the handler refers to the builder it was built from;
\* genKeyFnAtBuild remembers the builder's key function at that moment
BuildLimit(b) == [genKeyFnAtBuild |-> b.genKeyFn]

(***************************************************************************)
(* The bucket limit middleware (package bucketlimit), in front of a        *)
(* limiter that returns what the test scripts (mockLimiter).  A limiter    *)
(* instance is known by its number; puts counts the goroutines running its *)
(* Put method.                                                             *)
(***************************************************************************)
\* errors a bucket limiter returns: none, the context's errors (bare or
\* wrapped with %w), any other error
BucketErrors ==
    {"", "context.DeadlineExceeded", "context.Canceled",
     "wrapped:context.DeadlineExceeded", "wrapped:context.Canceled", "other"}

\* errors.Is(err, target)
ErrorsIs(err, target) == err = target \/ err = "wrapped:" \o target

BucketReturns == [limited : BOOLEAN, err : BucketErrors]

NoLimiter == [made |-> FALSE, closed |-> FALSE, puts |-> 0]

\* the limiter's constructor: no replenishment task is running yet
NewBucketLimiter == [made |-> TRUE, closed |-> FALSE, puts |-> 0]

\* go limiter.Put()
GoPut(lim) == [lim EXCEPT !.puts = @ + 1]

\* limiter.Close(): stops Put
Close(lim) == [lim EXCEPT !.closed = TRUE, !.puts = 0]

\* bucketlimit.NewBuilder(limiter): starts limiter.Put in a goroutine
NewBucketBuilder(limiters, l) ==
    [limiters |-> [limiters EXCEPT ![l] = GoPut(@)], builder |-> [limiter |-> l]]

BucketUnserved ==
    [served |-> FALSE, variant |-> "", ret |-> [limited |-> FALSE, err |-> ""],
     c |-> NewLimitContext]

\* mutant of BuildBucketHandler: the limited flag is looked at first
BuildBucketHandler_LimitedFirst(c, ret) ==
    IF ret.limited THEN AbortWithStatus(c, StatusTooManyRequests)
    ELSE IF ret.err = "" THEN [c EXCEPT !.ran = TRUE, !.status = StatusOK]
    ELSE IF ErrorsIs(ret.err, "context.DeadlineExceeded") \/ ErrorsIs(ret.err, "context.Canceled")
    THEN AbortWithStatus(c, StatusGatewayTimeout)
    ELSE AbortWithStatus(c, StatusInternalServerError)

\* the handler returned by Build (ret from limiter.Limit) and by BuildBlock
\* (ret from limiter.BlockLimit), followed by the route handler
BuildBucketHandler(c, ret) ==
    IF ret.err = ""
    THEN IF ret.limited THEN AbortWithStatus(c, StatusTooManyRequests)
         ELSE [c EXCEPT !.ran = TRUE, !.status = StatusOK]
    ELSE IF ErrorsIs(ret.err, "context.DeadlineExceeded") \/ ErrorsIs(ret.err, "context.Canceled")
    THEN AbortWithStatus(c, StatusGatewayTimeout)
    ELSE AbortWithStatus(c, StatusInternalServerError)

(***************************************************************************)
(* WithOptions on the managers as objects: a manager is known by its       *)
(* address in heap; clone allocates a copy and the options are applied to  *)
(* the object at the address clone returns.                                *)
(***************************************************************************)
\* jwtcore's options: the field each one assigns and the value
WithDecryptKey(key) == [opt |-> "DecryptKey", val |-> <<key>>]
WithMethod(method) == [opt |-> "Method", val |-> <<method>>]
WithIssuer(issuer) == [opt |-> "Issuer", val |-> <<issuer>>]
WithGenIDFunc(fn) == [opt |-> "genIDFn", val |-> <<fn>>]
WithTimeFunc(fn) == [opt |-> "timeFunc", val |-> <<fn>>]

\* jwtcore's opt.apply(manager)
applyOption(opt, t) ==
    CASE opt.opt = "DecryptKey" -> [t EXCEPT !.DecryptKey = opt.val[1]]
      [] opt.opt = "Method" -> [t EXCEPT !.Method = opt.val[1]]
      [] opt.opt = "Issuer" -> [t EXCEPT !.Issuer = opt.val[1]]
      [] opt.opt = "genIDFn" -> [t EXCEPT !.genIDFn = opt.val[1]]
      [] opt.opt = "timeFunc" -> [t EXCEPT !.timeFunc = opt.val[1]]

\* mutant of clone: the receiver itself is returned
clone_ReturnsReceiver(objs, p) == [heap |-> objs, ptr |-> p]

\* t.clone() / m.clone(): copyHandler := *t; return &copyHandler
clone(objs, p) == [heap |-> Append(objs, objs[p]), ptr |-> Len(objs) + 1]

\* for _, opt := range opts { opt.apply(c) } on the object at address p
RECURSIVE ApplyOptions(_, _, _)
ApplyOptions(objs, p, opts) ==
    IF opts = <<>> THEN objs
    ELSE ApplyOptions(
            [objs EXCEPT ![p] = IF "EncryptionKey" \in DOMAIN @
                                THEN applyOption(Head(opts), @)
                                ELSE apply(Head(opts), @)],
            p, Tail(opts))

\* TokenManagerServer.WithOptions / RefreshManager.WithOptions on the object
\* at address p: [heap, ptr]
WithOptionsAt(objs, p, opts) ==
    LET c == clone(objs, p)
    IN  [heap |-> ApplyOptions(c.heap, c.ptr, opts), ptr |-> c.ptr]

\* NewTokenManagerServer("ak", expire, WithIssuer(issuer), WithGenIDFunc(id),
\* WithMethod(method), WithTimeFunc(func() time.Time { return t0 }))
NewCodecManager(expire, issuer, id, method, t0) ==
    LET r == WithOptionsAt(<<NewTokenManagerServer("ak", expire, "")>>, 1,
                 <<WithIssuer(issuer), WithGenIDFunc(id), WithMethod(method),
                   WithTimeFunc(<<t0>>)>>)
    IN  r.heap[r.ptr]

\* issuer, ID function and signing method of the managers configured
CodecSettings ==
    { <<"", "", "HS256">>, <<"iss", "id", "HS256">>, <<"iss", "", "HS512">> }

\* fixed clocks of the generating manager: a whole second and an instant
\* one tick after it
GenerateClocks == TicksPerSecond..(TicksPerSecond + 1)

\* fixed clocks of the verifying manager
VerifyClocks == 1..(TicksPerSecond + MaxExpire + 2)

\* claims handed to GenerateToken: subject, audience and not-before (absent,
\* the first whole second, a later one) are the caller's; preset claims
\* also carry an issuer, expiry, issued-at and ID of the caller's
CodecClaims ==
    { [uid |-> u, sub |-> sa[1], aud |-> sa[2], nbf |-> n,
       iss |-> IF preset THEN "caller" ELSE "",
       exp |-> IF preset THEN TicksPerSecond ELSE 0,
       iat |-> IF preset THEN TicksPerSecond ELSE 0,
       jti |-> IF preset THEN "caller" ELSE ""] :
        u \in Uids, sa \in {<<"", "">>, <<"s", "a">>},
        n \in {0, TicksPerSecond, 2 * TicksPerSecond}, preset \in BOOLEAN }

\* tokens of other origin: not a token, an undecodable payload, the method
\* "none", a method that is not registered, and a well-formed token signed
\* with another key
ForeignTokens ==
    { "bad_token", "HS256.x.y",
      "none." \o EncodeClaims([ZeroClaims EXCEPT !.uid = 1]) \o ".",
      "XS256." \o EncodeClaims([ZeroClaims EXCEPT !.uid = 1]) \o ".sig",
      SignedString("HS256", "other", [ZeroClaims EXCEPT !.uid = 1, !.sub = "s"]) }

\* no refresh token presented yet
NoReplay == [presented |-> <<>>, prior |-> 0]

\* a builder on which no exemption setter has been called: NewMiddlewareBuilder
\* sets the predicate that exempts nothing
NoExempt ==
    [pkg |-> "auth/jwt", m |-> NewMiddlewareBuilder("auth/jwt", AccessTM),
     last |-> [kind |-> "never", paths |-> {}],
     prev |-> [kind |-> "never", paths |-> {}],
     out |-> Unserved]

NoToken == [made |-> FALSE, clm |-> ZeroClaims, token |-> ""]

NoVerification == [done |-> FALSE, at |-> 0, token |-> "", res |-> [clm |-> ZeroClaims, err |-> "", unwraps |-> {}]]

\* a token manager at address 1 and a refresh manager at address 2
NewHeap ==
    << NewTokenManagerServer("ak", ExpireAccess, ""),
       NewRefreshManager("auth/jwt", AccessTM, RefreshTM, <<>>) >>

NoCall == [recv |-> 0, opts |-> <<>>, ptr |-> 0]

\* option lists given to TokenManagerServer.WithOptions
TokenOptions ==
    << <<WithDecryptKey("dk")>>,
       <<WithMethod("HS512")>>,
       <<WithIssuer("a")>>,
       <<WithIssuer("a"), WithIssuer("b")>>,
       <<WithGenIDFunc("id")>>,
       <<WithTimeFunc(<<1>>), WithDecryptKey("dk")>> >>

(***************************************************************************)
(* The state machine.                                                      *)
(***************************************************************************)
Pkgs == {"auth/jwt", "jwt"}

Init ==
    /\ now = 0
    /\ mb = NewMiddlewareBuilder("auth/jwt", AccessTM)
    /\ authOut = Unserved
    /\ rm = NewRefreshManager("auth/jwt", AccessTM, RefreshTM, <<>>)
    /\ rmOpts = {}
    /\ refreshOut = Unserved
    /\ ab = NewBuilder
    /\ counter = [max |-> MaxActive, cnt |-> [k \in LimiterKeys |-> 0]]
    /\ reqs = [r \in Slots |-> IdleRequest]
    /\ lb = NewLimitBuilder("limit")
    /\ chain = <<>>
    /\ lmOut = LimitUnserved
    /\ bl = [l \in 1..NumLimiters |-> NoLimiter]
    /\ bb = <<>>
    /\ bkOut = BucketUnserved
    /\ heap = NewHeap
    /\ lastWith = NoCall
    /\ built = <<>>
    /\ km = NewCodecManager(ExpireAccess, "", "", TokenHeader, TicksPerSecond)
    /\ tok = NoToken
    /\ ver = NoVerification
    /\ inflight = [r \in 1..NumConc |-> IdleInflight]
    /\ replay = NoReplay
    /\ eb = NoExempt

\* time passes
Tick ==
    /\ now < MaxNow
    /\ now' = now + 1
    /\ UNCHANGED <<mb, authOut, rm, rmOpts, refreshOut, ab, counter, reqs, lb, chain, lmOut, bl, bb, bkOut, heap, lastWith, built, km, tok, ver, inflight, replay, eb>>

---------------------------------------------------------------------------
\* the authentication middleware: authOut is the outcome of the last request
\* served since the builder was last configured

CallNewMiddlewareBuilder ==
    /\ \E pkg \in Pkgs : mb' = NewMiddlewareBuilder(pkg, AccessTM)
    /\ authOut' = Unserved
    /\ UNCHANGED <<now, rm, rmOpts, refreshOut, ab, counter, reqs, lb, chain, lmOut, bl, bb, bkOut, heap, lastWith, built, km, tok, ver, inflight, replay, eb>>

CallIgnoreFullPath ==
    /\ \E fullPaths \in {{"/login", "/user/:id"}} : mb' = IgnoreFullPath(mb, fullPaths)
    /\ authOut' = Unserved
    /\ UNCHANGED <<now, rm, rmOpts, refreshOut, ab, counter, reqs, lb, chain, lmOut, bl, bb, bkOut, heap, lastWith, built, km, tok, ver, inflight, replay, eb>>

CallIgnorePath ==
    /\ \E paths \in {{"/login"}} : mb' = IgnorePath(mb, paths)
    /\ authOut' = Unserved
    /\ UNCHANGED <<now, rm, rmOpts, refreshOut, ab, counter, reqs, lb, chain, lmOut, bl, bb, bkOut, heap, lastWith, built, km, tok, ver, inflight, replay, eb>>

CallSetExtractTokenFunc ==
    /\ mb' = SetExtractTokenFunc(mb, [kind |-> "fixed", token |-> SomeToken])
    /\ authOut' = Unserved
    /\ UNCHANGED <<now, rm, rmOpts, refreshOut, ab, counter, reqs, lb, chain, lmOut, bl, bb, bkOut, heap, lastWith, built, km, tok, ver, inflight, replay, eb>>

CallSetClaimsFunc ==
    /\ \E fn \in {"ginKey", "strContext"} : mb' = SetClaimsFunc(mb, fn)
    /\ authOut' = Unserved
    /\ UNCHANGED <<now, rm, rmOpts, refreshOut, ab, counter, reqs, lb, chain, lmOut, bl, bb, bkOut, heap, lastWith, built, km, tok, ver, inflight, replay, eb>>

ServeAuthRequest ==
    /\ \E req \in Requests :
          authOut' = [served |-> TRUE, req |-> req, at |-> now,
                      c |-> ServeAuth(mb, req, now)]
    /\ UNCHANGED <<now, mb, rm, rmOpts, refreshOut, ab, counter, reqs, lb, chain, lmOut, bl, bb, bkOut, heap, lastWith, built, km, tok, ver, inflight, replay, eb>>

NextAuth ==
    \/ Tick
    \/ CallNewMiddlewareBuilder
    \/ CallIgnoreFullPath
    \/ CallIgnorePath
    \/ CallSetExtractTokenFunc
    \/ CallSetClaimsFunc
    \/ ServeAuthRequest

SpecAuth == Init /\ [][NextAuth]_vars

\* one builder whose handler is built once and keeps serving while the
\* builder's setters are called

\* h := m.Build(): the handler is a closure over the builder m
CallBuild ==
    /\ built = <<>>
    /\ built' = <<mb>>
    /\ authOut' = Unserved
    /\ UNCHANGED <<now, mb, rm, rmOpts, refreshOut, ab, counter, reqs, lb, chain, lmOut, bl, bb, bkOut, heap, lastWith, km, tok, ver, inflight, replay, eb>>

\* a request served by the built handler: it reads m.ignorePath,
\* m.extractToken and m.setClaims through m when the request arrives
ServeBuiltRequest ==
    /\ built # <<>>
    /\ \E req \in BuiltRequests :
          authOut' = [served |-> TRUE, req |-> req, at |-> now,
                      c |-> ServeAuth(mb, req, now)]
    /\ UNCHANGED <<now, mb, rm, rmOpts, refreshOut, ab, counter, reqs, lb, chain, lmOut, bl, bb, bkOut, heap, lastWith, built, km, tok, ver, inflight, replay, eb>>

NextBuilt ==
    \/ CallIgnoreFullPath
    \/ CallIgnorePath
    \/ CallSetExtractTokenFunc
    \/ CallSetClaimsFunc
    \/ CallBuild
    \/ ServeBuiltRequest

SpecBuilt == Init /\ [][NextBuilt]_vars

---------------------------------------------------------------------------
\* the refresh handler: refreshOut is the outcome of the last request served
\* since the manager was last configured

\* the option lists of the tests
RefreshOptions ==
    << <<WithRotateRefreshToken(TRUE)>>,
       <<WithRotateRefreshToken(FALSE)>>,
       <<WithRefreshAuthHandler([kind |-> "noop"])>>,
       <<WithRefreshAuthHandler(
           [kind |-> "middleware",
            m |-> SetClaimsFunc(NewMiddlewareBuilder("auth/jwt", RefreshTM),
                                "strContext")])>>,
       <<WithGetClaims("strContext")>>,
       <<WithAccessTokenSetter("context"), WithRefreshTokenSetter("context"),
         WithResponseSetter("json")>> >>

CallNewRefreshManager ==
    /\ \E pkg \in Pkgs, accessTM \in {AccessTM, FailingTM}, refreshTM \in {RefreshTM, FailingTM} :
          rm' = NewRefreshManager(pkg, accessTM, refreshTM, <<>>)
    /\ rmOpts' = {}
    /\ refreshOut' = Unserved
    /\ UNCHANGED <<now, mb, authOut, ab, counter, reqs, lb, chain, lmOut, bl, bb, bkOut, heap, lastWith, built, km, tok, ver, inflight, replay, eb>>

CallWithOptions ==
    /\ \E i \in 1..Len(RefreshOptions) :
          /\ rm' = WithOptions(rm, RefreshOptions[i])
          /\ rmOpts' = rmOpts \cup { RefreshOptions[i][j].opt : j \in 1..Len(RefreshOptions[i]) }
    /\ refreshOut' = Unserved
    /\ UNCHANGED <<now, mb, authOut, ab, counter, reqs, lb, chain, lmOut, bl, bb, bkOut, heap, lastWith, built, km, tok, ver, inflight, replay, eb>>

ServeRefreshRequest ==
    /\ \E req \in RefreshRequests :
          refreshOut' = [served |-> TRUE, req |-> req, at |-> now,
                         c |-> Handler(rm, NewContext, req, now)]
    /\ UNCHANGED <<now, mb, authOut, rm, rmOpts, ab, counter, reqs, lb, chain, lmOut, bl, bb, bkOut, heap, lastWith, built, km, tok, ver, inflight, replay, eb>>

NextRefresh ==
    \/ Tick
    \/ CallNewRefreshManager
    \/ CallWithOptions
    \/ ServeRefreshRequest

SpecRefresh == Init /\ [][NextRefresh]_vars

\* the refresh handler with rotation, presented the same refresh tokens again
\* and again while time passes; replay is the history of these requests
ReplayRequests ==
    [path : {"/refresh"},
     authorization : {""} \cup { "Bearer " \o t : t \in IssuedTokens(RefreshTM) }]

CallWithRotateRefreshToken ==
    /\ ~rm.rotateRefreshToken
    /\ rm' = WithOptions(rm, <<WithRotateRefreshToken(TRUE)>>)
    /\ refreshOut' = Unserved
    /\ UNCHANGED <<now, mb, authOut, rmOpts, ab, counter, reqs, lb, chain, lmOut, bl, bb, bkOut, heap, lastWith, built, km, tok, ver, inflight, replay, eb>>

ServeReplayRequest ==
    /\ \E req \in ReplayRequests :
          \E c \in {Handler(rm, NewContext, req, now)} :
             /\ refreshOut' = [served |-> TRUE, req |-> req, at |-> now, c |-> c]
             /\ replay' =
                   [presented |->
                        IF /\ rm.rotateRefreshToken
                           /\ Calls(c, "responseHandler") = 1
                           /\ Len(replay.presented) < MaxReplay
                        THEN Append(replay.presented, extractToken(req))
                        ELSE replay.presented,
                    prior |-> Len(SelectSeq(replay.presented,
                                            LAMBDA t : t = extractToken(req)))]
    /\ UNCHANGED <<now, mb, authOut, rm, rmOpts, ab, counter, reqs, lb, chain, lmOut, bl, bb, bkOut, heap, lastWith, built, km, tok, ver, inflight, eb>>

NextReplay ==
    \/ Tick
    \/ CallWithRotateRefreshToken
    \/ ServeReplayRequest

SpecReplay == Init /\ [][NextReplay]_vars

---------------------------------------------------------------------------
\* the active-count middleware: the requests run concurrently, each through
\* the steps of Build's handler

\* requests counted in by Limit under key k and not yet counted out
\* the requests counted in under key k that have not reached their Decr
InFlight(k) == Cardinality({ r \in Slots : reqs[r].key = k /\ reqs[r].pc \in {"next", "deferred"} })

\* the counts that failed Decr calls have left behind, over all keys
RECURSIVE Leaked(_)
Leaked(keys) ==
    IF keys = {} THEN 0
    ELSE LET k == CHOOSE x \in keys : TRUE
         IN  (counter.cnt[k] - InFlight(k)) + Leaked(keys \ {k})

\* the builder is configured before it serves: no request is in service and
\* none is counted
Unused ==
    /\ \A r \in Slots : reqs[r].pc = "idle"
    /\ \A k \in LimiterKeys : counter.cnt[k] = 0

CallSetKeyGenFuncByIP ==
    /\ Unused
    /\ ab' = SetKeyGenFuncByIP(ab)
    /\ UNCHANGED <<now, mb, authOut, rm, rmOpts, refreshOut, counter, reqs, lb, chain, lmOut, bl, bb, bkOut, heap, lastWith, built, km, tok, ver, inflight, replay, eb>>

\* SetKeyGenFunc with the function of the test, before the builder serves
CallSetActiveKeyGenFunc ==
    /\ Unused
    /\ \E key \in {"test"} : ab' = SetActiveKeyGenFunc(ab, key)
    /\ UNCHANGED <<now, mb, authOut, rm, rmOpts, refreshOut, counter, reqs, lb, chain, lmOut, bl, bb, bkOut, heap, lastWith, built, km, tok, ver, inflight, replay, eb>>

Enter(r) ==
    /\ reqs[r].pc = "idle"
    /\ \E ip \in IPs, fail \in LimitFailures :
          LET res == BuildEnter(ab, counter, ip, fail)
          IN  /\ counter' = res.counter
              /\ reqs' = [reqs EXCEPT ![r] = res.req]
    /\ UNCHANGED <<now, mb, authOut, rm, rmOpts, refreshOut, ab, lb, chain, lmOut, bl, bb, bkOut, heap, lastWith, built, km, tok, ver, inflight, replay, eb>>

Downstream(r) ==
    /\ reqs[r].pc = "next"
    /\ \E outcome \in {"ok", "abort", "panic"} :
          reqs' = [reqs EXCEPT ![r] = BuildNext(reqs[r], outcome)]
    /\ UNCHANGED <<now, mb, authOut, rm, rmOpts, refreshOut, ab, counter, lb, chain, lmOut, bl, bb, bkOut, heap, lastWith, built, km, tok, ver, inflight, replay, eb>>

Deferred(r) ==
    /\ reqs[r].pc = "deferred"
    /\ \E fail \in BOOLEAN :
          /\ fail => Leaked(LimiterKeys) < MaxLeak
          /\ LET res == BuildDeferred(ab, counter, reqs[r], fail)
             IN  /\ counter' = res.counter
                 /\ reqs' = [reqs EXCEPT ![r] = res.req]
    /\ UNCHANGED <<now, mb, authOut, rm, rmOpts, refreshOut, ab, lb, chain, lmOut, bl, bb, bkOut, heap, lastWith, built, km, tok, ver, inflight, replay, eb>>

\* the response is written; the slot serves the next request
Finish(r) ==
    /\ reqs[r].pc = "done"
    /\ reqs' = [reqs EXCEPT ![r] = IdleRequest]
    /\ UNCHANGED <<now, mb, authOut, rm, rmOpts, refreshOut, ab, counter, lb, chain, lmOut, bl, bb, bkOut, heap, lastWith, built, km, tok, ver, inflight, replay, eb>>

NextActive ==
    \/ CallSetKeyGenFuncByIP
    \/ CallSetActiveKeyGenFunc
    \/ \E r \in 1..NumReqs : Enter(r)
    \/ \E r \in 1..NumReqs : Downstream(r)
    \/ \E r \in 1..NumReqs : Deferred(r)
    \/ \E r \in 1..NumReqs : Finish(r)

SpecActive == Init /\ [][NextActive]_vars

\* the active-count middleware in front of a limiter whose calls do not fail
EnterOk(r) ==
    /\ reqs[r].pc = "idle"
    /\ \E ip \in IPs :
          LET res == BuildEnter(ab, counter, ip, "")
          IN  /\ counter' = res.counter
              /\ reqs' = [reqs EXCEPT ![r] = res.req]
    /\ UNCHANGED <<now, mb, authOut, rm, rmOpts, refreshOut, ab, lb, chain, lmOut, bl, bb, bkOut, heap, lastWith, built, km, tok, ver, inflight, replay, eb>>

DeferredOk(r) ==
    /\ reqs[r].pc = "deferred"
    /\ LET res == BuildDeferred(ab, counter, reqs[r], FALSE)
       IN  /\ counter' = res.counter
           /\ reqs' = [reqs EXCEPT ![r] = res.req]
    /\ UNCHANGED <<now, mb, authOut, rm, rmOpts, refreshOut, ab, lb, chain, lmOut, bl, bb, bkOut, heap, lastWith, built, km, tok, ver, inflight, replay, eb>>

\* ctx.Next() returns, the downstream handlers having finished normally
DownstreamOk(r) == Downstream(r) /\ reqs'[r].outcome = "ok"

\* a limiter with ceiling n takes the place of the one before, before the
\* builder serves
CallNewLimiter ==
    /\ Unused
    /\ \E n \in 1..GateCeiling :
          counter' = [max |-> n, cnt |-> [k \in LimiterKeys |-> 0]]
    /\ UNCHANGED <<now, mb, authOut, rm, rmOpts, refreshOut, ab, reqs, lb, chain, lmOut, bl, bb, bkOut, heap, lastWith, built, km, tok, ver, inflight, replay, eb>>

\* the gate: a limiter whose calls do not fail, one key for all requests or
\* one per client address, downstream handlers that return normally
NextGate ==
    \/ CallNewLimiter
    \/ CallSetKeyGenFuncByIP
    \/ \E r \in 1..GateReqs : EnterOk(r)
    \/ \E r \in 1..GateReqs : DownstreamOk(r)
    \/ \E r \in 1..GateReqs : DeferredOk(r)
    \/ \E r \in 1..GateReqs : Finish(r)

SpecGate == Init /\ [][NextGate]_vars

\* the active-count middleware whose builder is reconfigured while requests
\* are in service: the handler reads b.genKeyFn through b at each call
\* the counts Limit and Decr under different keys have left on the keys stay
\* within MaxDrift while the builder is reconfigured
DriftBounded ==
    \A k \in LimiterKeys : counter.cnt[k] - InFlight(k) \in (0 - MaxDrift)..MaxDrift

CallSetKeyGenFuncByIPInService ==
    /\ DriftBounded
    /\ ab' = SetKeyGenFuncByIP(ab)
    /\ UNCHANGED <<now, mb, authOut, rm, rmOpts, refreshOut, counter, reqs, lb, chain, lmOut, bl, bb, bkOut, heap, lastWith, built, km, tok, ver, inflight, replay, eb>>

\* SetKeyGenFunc called at any time, with a function returning the default key
CallSetKeyGenFuncInService ==
    /\ DriftBounded
    /\ \E key \in {"all_req_active_limiter"} : ab' = SetActiveKeyGenFunc(ab, key)
    /\ UNCHANGED <<now, mb, authOut, rm, rmOpts, refreshOut, counter, reqs, lb, chain, lmOut, bl, bb, bkOut, heap, lastWith, built, km, tok, ver, inflight, replay, eb>>

NextRekey ==
    \/ CallSetKeyGenFuncByIPInService
    \/ CallSetKeyGenFuncInService
    \/ \E r \in 1..NumReqs : EnterOk(r)
    \/ \E r \in 1..NumReqs : Downstream(r)
    \/ \E r \in 1..NumReqs : DeferredOk(r)
    \/ \E r \in 1..NumReqs : Finish(r)

SpecRekey == Init /\ [][NextRekey]_vars


\* limit / slidewindowlimit / activelimit NewBuilder and a new engine
CallNewLimitBuilder ==
    /\ \E pkg \in LimitPkgs : lb' = NewLimitBuilder(pkg)
    /\ chain' = <<>>
    /\ lmOut' = LimitUnserved
    /\ UNCHANGED <<now, mb, authOut, rm, rmOpts, refreshOut, ab, counter, reqs, bl, bb, bkOut, heap, lastWith, built, km, tok, ver, inflight, replay, eb>>

\* the setters are called at any time, also while a request is in service
CallSetKeyGenFunc ==
    /\ lb' = SetKeyGenFunc(lb, "all-request")
    /\ UNCHANGED <<now, mb, authOut, rm, rmOpts, refreshOut, ab, counter, reqs, chain, lmOut, bl, bb, bkOut, heap, lastWith, built, km, tok, ver, inflight, replay, eb>>

\* package limit has no SetKeyGenFuncByIP
CallSetLimitKeyGenFuncByIP ==
    /\ lb.pkg \in {"slidewindowlimit", "activelimit"}
    /\ lb' = SetLimitKeyGenFuncByIP(lb)
    /\ UNCHANGED <<now, mb, authOut, rm, rmOpts, refreshOut, ab, counter, reqs, chain, lmOut, bl, bb, bkOut, heap, lastWith, built, km, tok, ver, inflight, replay, eb>>

\* r.Use(builder.Build()), before the route is registered again
CallUseBuild ==
    /\ Len(chain) < MaxChain
    /\ chain' = Append(chain, BuildLimit(lb))
    /\ lmOut' = LimitUnserved
    /\ UNCHANGED <<now, mb, authOut, rm, rmOpts, refreshOut, ab, counter, reqs, lb, bl, bb, bkOut, heap, lastWith, built, km, tok, ver, inflight, replay, eb>>

\* a request arrives: the engine matches its route, whose handlers are those
\* of chain
ReceiveLimitRequest ==
    /\ chain # <<>>
    /\ lmOut.pc = "idle"
    /\ \E ip \in IPs :
          lmOut' = [LimitUnserved EXCEPT !.pc = "handlers", !.ip = ip, !.n = Len(chain)]
    /\ UNCHANGED <<now, mb, authOut, rm, rmOpts, refreshOut, ab, counter, reqs, lb, chain, bl, bb, bkOut, heap, lastWith, built, km, tok, ver, inflight, replay, eb>>

\* the engine runs the request's next handler while the limiter returns ret:
\* the handler reads b.genKeyFn, calls the limiter and runs up to its
\* ctx.Next() or return (activelimit's has registered its deferred function
\* unless Limit returned an error); when it was the last and did not abort,
\* the route handler runs; then the request is in front of the next handler,
\* or unwinds through the deferred functions
ServeLimitRequest ==
    /\ lmOut.pc = "handlers"
    /\ \E ret \in LimitReturns :
          LET c1 == IF lb.pkg = "activelimit"
                    THEN BuildActiveHandler(lb, lmOut.c, lmOut.ip, ret)
                    ELSE BuildLimitHandler(lb, lmOut.c, lmOut.ip, ret)
              rets == Append(lmOut.rets, ret)
              pending == IF lb.pkg = "activelimit" /\ ~ret.err
                         THEN lmOut.pending + 1 ELSE lmOut.pending
              last == c1.aborted \/ Len(rets) = lmOut.n
              c2 == IF ~c1.aborted /\ Len(rets) = lmOut.n
                    THEN [c1 EXCEPT !.ran = TRUE, !.status = StatusOK] ELSE c1
          IN  lmOut' = [lmOut EXCEPT
                          !.rets = rets, !.pending = pending, !.c = c2,
                          !.pc = IF ~last THEN "handlers"
                                 ELSE IF pending > 0 THEN "deferred" ELSE "idle",
                          !.served = last /\ pending = 0]
    /\ UNCHANGED <<now, mb, authOut, rm, rmOpts, refreshOut, ab, counter, reqs, lb, chain, bl, bb, bkOut, heap, lastWith, built, km, tok, ver, inflight, replay, eb>>

\* the innermost deferred function still to run runs: it reads b.genKeyFn
\* again; after the last one the request is served
ReleaseLimitRequest ==
    /\ lmOut.pc = "deferred"
    /\ lmOut' = [lmOut EXCEPT
                    !.c = BuildActiveDeferred(lb, lmOut.c, lmOut.ip),
                    !.pending = @ - 1,
                    !.pc = IF lmOut.pending = 1 THEN "idle" ELSE "deferred",
                    !.served = lmOut.pending = 1]
    /\ UNCHANGED <<now, mb, authOut, rm, rmOpts, refreshOut, ab, counter, reqs, lb, chain, bl, bb, bkOut, heap, lastWith, built, km, tok, ver, inflight, replay, eb>>

NextLimit ==
    \/ CallNewLimitBuilder
    \/ CallSetKeyGenFunc
    \/ CallSetLimitKeyGenFuncByIP
    \/ CallUseBuild
    \/ ReceiveLimitRequest
    \/ ServeLimitRequest
    \/ ReleaseLimitRequest

SpecLimit == Init /\ [][NextLimit]_vars


\* a bucket limiter is constructed
CallNewBucketLimiter ==
    /\ \E l \in 1..NumLimiters :
          /\ ~bl[l].made
          /\ bl' = [bl EXCEPT ![l] = NewBucketLimiter]
    /\ UNCHANGED <<now, mb, authOut, rm, rmOpts, refreshOut, ab, counter, reqs, lb, chain, lmOut, bb, bkOut, heap, lastWith, built, km, tok, ver, inflight, replay, eb>>

CallNewBucketBuilder ==
    /\ Len(bb) < MaxBuilders
    /\ \E l \in 1..NumLimiters :
          /\ bl[l].made /\ ~bl[l].closed
          /\ LET res == NewBucketBuilder(bl, l)
             IN  /\ bl' = res.limiters
                 /\ bb' = Append(bb, res.builder)
    /\ UNCHANGED <<now, mb, authOut, rm, rmOpts, refreshOut, ab, counter, reqs, lb, chain, lmOut, bkOut, heap, lastWith, built, km, tok, ver, inflight, replay, eb>>

CallClose ==
    /\ \E l \in 1..NumLimiters :
          /\ bl[l].made /\ ~bl[l].closed
          /\ bl' = [bl EXCEPT ![l] = Close(@)]
    /\ UNCHANGED <<now, mb, authOut, rm, rmOpts, refreshOut, ab, counter, reqs, lb, chain, lmOut, bb, bkOut, heap, lastWith, built, km, tok, ver, inflight, replay, eb>>

ServeBucketRequest ==
    /\ bb # <<>>
    /\ \E variant \in {"Build", "BuildBlock"}, ret \in BucketReturns :
          bkOut' = [served |-> TRUE, variant |-> variant, ret |-> ret,
                    c |-> BuildBucketHandler(NewLimitContext, ret)]
    /\ UNCHANGED <<now, mb, authOut, rm, rmOpts, refreshOut, ab, counter, reqs, lb, chain, lmOut, bl, bb, heap, lastWith, built, km, tok, ver, inflight, replay, eb>>

NextBucket ==
    \/ CallNewBucketLimiter
    \/ CallNewBucketBuilder
    \/ CallClose
    \/ ServeBucketRequest

SpecBucket == Init /\ [][NextBucket]_vars


\* WithOptions called on an allocated token manager
CallTokenWithOptions ==
    /\ Len(heap) < MaxHeap
    /\ \E p \in 1..Len(heap), i \in 1..Len(TokenOptions) :
          /\ "EncryptionKey" \in DOMAIN heap[p]
          /\ LET res == WithOptionsAt(heap, p, TokenOptions[i])
             IN  /\ heap' = res.heap
                 /\ lastWith' = [recv |-> p, opts |-> TokenOptions[i], ptr |-> res.ptr]
    /\ UNCHANGED <<now, mb, authOut, rm, rmOpts, refreshOut, ab, counter, reqs, lb, chain, lmOut, bl, bb, bkOut, built, km, tok, ver, inflight, replay, eb>>

\* WithOptions called on an allocated refresh manager
CallRefreshWithOptions ==
    /\ Len(heap) < MaxHeap
    /\ \E p \in 1..Len(heap), i \in 1..Len(RefreshOptions) :
          /\ "rotateRefreshToken" \in DOMAIN heap[p]
          /\ LET res == WithOptionsAt(heap, p, RefreshOptions[i])
             IN  /\ heap' = res.heap
                 /\ lastWith' = [recv |-> p, opts |-> RefreshOptions[i], ptr |-> res.ptr]
    /\ UNCHANGED <<now, mb, authOut, rm, rmOpts, refreshOut, ab, counter, reqs, lb, chain, lmOut, bl, bb, bkOut, built, km, tok, ver, inflight, replay, eb>>

NextCopy ==
    \/ CallTokenWithOptions
    \/ CallRefreshWithOptions

SpecCopy == Init /\ [][NextCopy]_vars


\* the token codec: a manager is configured, generates one token and one
\* token is verified by that manager reading another fixed clock; the
\* manager keeps no state between calls

CallNewTokenManagerServer ==
    /\ ~tok.made
    /\ \E expire \in 0..MaxExpire, cfg \in CodecSettings, t0 \in GenerateClocks :
          km' = NewCodecManager(expire, cfg[1], cfg[2], cfg[3], t0)
    /\ UNCHANGED <<now, mb, authOut, rm, rmOpts, refreshOut, ab, counter, reqs, lb, chain, lmOut, bl, bb, bkOut, heap, lastWith, built, tok, ver, inflight, replay, eb>>

CallGenerateToken ==
    /\ ~tok.made
    /\ \E clm \in CodecClaims :
          tok' = [made |-> TRUE, clm |-> clm, token |-> GenerateToken(km, clm, now).token]
    /\ UNCHANGED <<now, mb, authOut, rm, rmOpts, refreshOut, ab, counter, reqs, lb, chain, lmOut, bl, bb, bkOut, heap, lastWith, built, km, ver, inflight, replay, eb>>

\* km.WithOptions(WithTimeFunc(func() time.Time { return t })).VerifyToken(token)
CallVerifyToken ==
    /\ tok.made
    /\ ~ver.done
    /\ \E t \in VerifyClocks, token \in {tok.token} \cup ForeignTokens :
          LET r == WithOptionsAt(<<km>>, 1, <<WithTimeFunc(<<t>>)>>)
          IN  ver' = [done |-> TRUE, at |-> t, token |-> token,
                      res |-> VerifyToken(r.heap[r.ptr], token, now)]
    /\ UNCHANGED <<now, mb, authOut, rm, rmOpts, refreshOut, ab, counter, reqs, lb, chain, lmOut, bl, bb, bkOut, heap, lastWith, built, km, tok, inflight, replay, eb>>

NextCodec ==
    \/ CallNewTokenManagerServer
    \/ CallGenerateToken
    \/ CallVerifyToken

SpecCodec == Init /\ [][NextCodec]_vars


\* requests in service at once; the builder is configured while none is

\* NewMiddlewareBuilder of either package, with or without exempt routes
CallConfigure ==
    /\ \A r \in 1..NumConc : inflight[r].pc # "next"
    /\ \E pkg \in Pkgs, exempt \in BOOLEAN :
          mb' = IF exempt
                THEN IgnoreFullPath(NewMiddlewareBuilder(pkg, AccessTM), {"/login", "/user/:id"})
                ELSE NewMiddlewareBuilder(pkg, AccessTM)
    /\ inflight' = [r \in 1..NumConc |-> IdleInflight]
    /\ UNCHANGED <<now, authOut, rm, rmOpts, refreshOut, ab, counter, reqs, lb, chain, lmOut, bl, bb, bkOut, heap, lastWith, built, km, tok, ver, replay, eb>>

\* a request arrives and passes through the middleware
CallServeHTTP ==
    /\ \E r \in 1..NumConc, req \in ConcRequests :
          /\ inflight[r].pc # "next"
          /\ inflight' = ServeHTTP(inflight, r, req, mb, now)
    /\ UNCHANGED <<now, mb, authOut, rm, rmOpts, refreshOut, ab, counter, reqs, lb, chain, lmOut, bl, bb, bkOut, heap, lastWith, built, km, tok, ver, replay, eb>>

\* the route handler of a request runs and reads the claims
RunRouteHandler ==
    /\ \E r \in 1..NumConc :
          /\ inflight[r].pc = "next"
          /\ inflight' = [inflight EXCEPT
                ![r].pc = "done",
                ![r].c = RouteHandler(@),
                ![r].got = ReadClaims(mb, inflight[r].c)]
    /\ UNCHANGED <<now, mb, authOut, rm, rmOpts, refreshOut, ab, counter, reqs, lb, chain, lmOut, bl, bb, bkOut, heap, lastWith, built, km, tok, ver, replay, eb>>

NextConc ==
    \/ CallConfigure
    \/ CallServeHTTP
    \/ RunRouteHandler

SpecConc == Init /\ [][NextConc]_vars

---------------------------------------------------------------------------
---------------------------------------------------------------------------
\* exemption setters called one after another on one builder; eb.last is
\* the predicate of the last call and eb.prev the one of the call before

\* the route patterns an IgnoreFullPath call lists
FullPaths == { FullPath(p) : p \in Paths }

\* the requests sent to the builder's handler: with no token, or a valid one
ExemptRequests == [path : Paths, authorization : {"", "Bearer " \o SomeToken}]

\* the functions handed to IgnorePathFunc: c.Request.URL.Path == p
PathFuncs == { [kind |-> "path", paths |-> {p}] : p \in Paths }

CallNewExemptBuilder ==
    /\ \E pkg \in Pkgs :
          eb' = [NoExempt EXCEPT !.pkg = pkg, !.m = NewMiddlewareBuilder(pkg, AccessTM)]
    /\ UNCHANGED <<now, mb, authOut, rm, rmOpts, refreshOut, ab, counter, reqs, lb, chain, lmOut, bl, bb, bkOut, heap, lastWith, built, km, tok, ver, inflight, replay>>

CallExemptIgnorePathFunc ==
    /\ \E fn \in PathFuncs :
          eb' = [eb EXCEPT !.m = IgnorePathFunc(@, fn),
                                   !.prev = eb.last, !.last = fn,
                                   !.out = Unserved]
    /\ UNCHANGED <<now, mb, authOut, rm, rmOpts, refreshOut, ab, counter, reqs, lb, chain, lmOut, bl, bb, bkOut, heap, lastWith, built, km, tok, ver, inflight, replay>>

CallExemptIgnoreFullPath ==
    /\ \E fullPaths \in SUBSET FullPaths :
          eb' = [eb EXCEPT !.m = IgnoreFullPath(@, fullPaths),
                                   !.prev = eb.last,
                                   !.last = [kind |-> "fullPath", paths |-> fullPaths],
                                   !.out = Unserved]
    /\ UNCHANGED <<now, mb, authOut, rm, rmOpts, refreshOut, ab, counter, reqs, lb, chain, lmOut, bl, bb, bkOut, heap, lastWith, built, km, tok, ver, inflight, replay>>

\* IgnorePath is a method of the older package's builder only
CallExemptIgnorePath ==
    /\ eb.pkg = "jwt"
    /\ \E paths \in SUBSET Paths :
          eb' = [eb EXCEPT !.m = IgnorePath(@, paths),
                                   !.prev = eb.last,
                                   !.last = [kind |-> "path", paths |-> paths],
                                   !.out = Unserved]
    /\ UNCHANGED <<now, mb, authOut, rm, rmOpts, refreshOut, ab, counter, reqs, lb, chain, lmOut, bl, bb, bkOut, heap, lastWith, built, km, tok, ver, inflight, replay>>

ServeExemptRequest ==
    /\ \E req \in ExemptRequests :
          eb' = [eb EXCEPT !.out = [served |-> TRUE, req |-> req, at |-> now,
                                            c |-> ServeAuth(eb.m, req, now)]]
    /\ UNCHANGED <<now, mb, authOut, rm, rmOpts, refreshOut, ab, counter, reqs, lb, chain, lmOut, bl, bb, bkOut, heap, lastWith, built, km, tok, ver, inflight, replay>>

NextExempt ==
    \/ CallNewExemptBuilder
    \/ CallExemptIgnorePathFunc
    \/ CallExemptIgnoreFullPath
    \/ CallExemptIgnorePath
    \/ ServeExemptRequest

SpecExempt == Init /\ [][NextExempt]_vars

Next == NextAuth \/ NextRefresh \/ NextActive \/ NextLimit \/ NextBucket \/ NextCopy \/ NextBuilt \/ NextCodec \/ NextConc \/ NextRekey \/ NextReplay \/ NextExempt

Spec == Init /\ [][Next]_vars


---------------------------------------------------------------------------
(***************************************************************************)
(* Properties of the authentication middleware (SpecAuth).                 *)
(***************************************************************************)

\* C1: on a request that is not exempt, the downstream handler runs iff the
\* extraction function returned a non-empty token and VerifyToken returned no
\* error for it; then the claims-attachment function was called exactly once,
\* with the claims VerifyToken returned, before the handler; otherwise the
\* request is aborted with 401 and the attachment function is never called.
C1_HandlerRunsIffVerified ==
    (authOut.served /\ ~InvokeIgnorePath(mb, authOut.req)) =>
        LET c == authOut.c
            tokenStr == InvokeExtractToken(mb, authOut.req)
            v == VerifyToken(mb.TokenManager, tokenStr, authOut.at)
            verified == tokenStr # "" /\ v.err = ""
        IN  /\ (Calls(c, "handler") = 1) <=> verified
            /\ verified =>
                  /\ ~c.aborted
                  /\ c.setClaimsArgs = <<v.clm>>
                  /\ c.trace = <<"extractToken", "VerifyToken", "setClaims", "handler">>
            /\ ~verified =>
                  /\ c.aborted
                  /\ c.status = StatusUnauthorized
                  /\ Calls(c, "setClaims") = 0
                  /\ Calls(c, "handler") = 0

C1_Witness ==
    /\ authOut.served
    /\ ~InvokeIgnorePath(mb, authOut.req)
    /\ mb.extractToken.kind = "header"
    /\ Calls(authOut.c, "handler") = 1
    /\ authOut.c.setClaimsArgs # <<>>
    /\ authOut.c.setClaimsArgs[1].uid = MaxUid

\* C2: with the default extraction function, a request without authorization
\* header, one whose value does not start with "Bearer " and one whose value
\* is exactly "Bearer " are rejected with 401 without a call of VerifyToken.
C2_NoBearerTokenRejected ==
    (/\ authOut.served
     /\ ~InvokeIgnorePath(mb, authOut.req)
     /\ mb.extractToken.kind = "header"
     /\ \/ authOut.req.authorization = ""
        \/ ~HasPrefix(authOut.req.authorization, "Bearer ")
        \/ authOut.req.authorization = "Bearer ") =>
        /\ authOut.c.aborted
        /\ authOut.c.status = StatusUnauthorized
        /\ Calls(authOut.c, "VerifyToken") = 0
        /\ authOut.c.verifyArgs = <<>>
        /\ Calls(authOut.c, "handler") = 0

C2_Witness ==
    /\ authOut.served
    /\ ~InvokeIgnorePath(mb, authOut.req)
    /\ mb.extractToken.kind = "header"
    /\ authOut.req.authorization = "Bearer" \o SomeToken
    /\ authOut.c.aborted

\* C3: when the exemption predicate holds of a request, the middleware calls
\* neither the extraction function nor VerifyToken nor the attachment
\* function, does not abort, and the downstream handler runs, whatever the
\* authorization header is.
C3_ExemptPassesUntouched ==
    (authOut.served /\ InvokeIgnorePath(mb, authOut.req)) =>
        /\ authOut.c.trace = <<"handler">>
        /\ ~authOut.c.aborted
        /\ authOut.c.verifyArgs = <<>>
        /\ authOut.c.setClaimsArgs = <<>>
        /\ authOut.c.ctxClaims = <<>> /\ authOut.c.keyClaims = <<>>
        /\ authOut.c.status = StatusOK

C3_Witness ==
    /\ authOut.served
    /\ InvokeIgnorePath(mb, authOut.req)
    /\ authOut.req.authorization = "Bearer bad_token"
    /\ mb.extractToken.kind = "header"
    /\ Calls(authOut.c, "handler") = 1

---------------------------------------------------------------------------
(***************************************************************************)
(* Properties of RefreshManager.Handler (SpecRefresh).  The stages of the  *)
(* served request are recomputed from the request, the manager and the     *)
(* instant of the request, and compared with the recorded outcome.         *)
(***************************************************************************)
\* the context after the refresh authentication handler returned
RefreshAuthResult ==
    InvokeRefreshAuthHandler(rm, NewContext, refreshOut.req, refreshOut.at)

\* what the claims getter returns on that context
RefreshGot == InvokeGetClaims(rm, RefreshAuthResult)

\* what the two managers generate for these claims at that instant
RefreshAccess == GenerateToken(rm.accessTM, RefreshGot.clm, refreshOut.at)

RefreshRefresh == GenerateToken(rm.refreshTM, RefreshGot.clm, refreshOut.at)

DefaultSettersAndFinalizer ==
    rmOpts \cap {"accessTokenSetterFn", "refreshTokenSetterFn", "responseHandler"} = {}

\* C4: if the refresh authentication handler aborts the request, Handler
\* returns immediately with the 401 set by the authenticator: the claims
\* getter, both GenerateToken, both setters and the response finalizer are
\* never called and no x-access-token or x-refresh-token header is emitted,
\* also when rotation is enabled.
C4_AbortedRefreshShortCircuits ==
    (refreshOut.served /\ RefreshAuthResult.aborted) =>
        LET c == refreshOut.c
        IN  /\ c = RefreshAuthResult
            /\ c.aborted
            /\ c.status = StatusUnauthorized
            /\ \A name \in {"getClaims", "accessTM.GenerateToken", "refreshTM.GenerateToken",
                            "accessTokenSetterFn", "refreshTokenSetterFn",
                            "responseHandler"} : Calls(c, name) = 0
            /\ c.hdrAccess = <<>> /\ c.hdrRefresh = <<>>
            /\ c.ctxAccess = <<>> /\ c.ctxRefresh = <<>>

C4_Witness ==
    /\ refreshOut.served
    /\ rm.rotateRefreshToken
    /\ rm.refreshAuthHandler.kind = "middleware"
    /\ refreshOut.c.aborted
    /\ refreshOut.c.status = StatusUnauthorized
    /\ refreshOut.c.verifyArgs # <<>>

\* C5: for a refresh request with a valid refresh token (authentication
\* passes, the claims are found and token generation succeeds), with default
\* setters and finalizer: with rotation disabled the response is 204 with a
\* newly generated access token in x-access-token, no x-refresh-token, and
\* refreshTM.GenerateToken is never called; with rotation enabled the
\* response carries both headers, the access token verifies under the access
\* manager and the refresh token under the refresh manager.
C5_RefreshIssuesTokens ==
    (/\ refreshOut.served
     /\ DefaultSettersAndFinalizer
     /\ ~RefreshAuthResult.aborted
     /\ RefreshGot.ok
     /\ ~RefreshAccess.err
     /\ rm.rotateRefreshToken => ~RefreshRefresh.err) =>
        LET c == refreshOut.c
            va == VerifyToken(rm.accessTM, c.hdrAccess[1], refreshOut.at)
            vr == VerifyToken(rm.refreshTM, c.hdrRefresh[1], refreshOut.at)
        IN  /\ c.status = StatusNoContent
            /\ c.hdrAccess = <<RefreshAccess.token>>
            /\ va.err = "" /\ va.clm.uid = RefreshGot.clm.uid
            /\ va.clm.iat = NewNumericDate(refreshOut.at)
            /\ ~rm.rotateRefreshToken =>
                  /\ c.hdrRefresh = <<>>
                  /\ Calls(c, "refreshTM.GenerateToken") = 0
            /\ rm.rotateRefreshToken =>
                  /\ c.hdrRefresh = <<RefreshRefresh.token>>
                  /\ vr.err = "" /\ vr.clm.uid = RefreshGot.clm.uid
                  /\ vr.clm.iat = NewNumericDate(refreshOut.at)

C5_Witness ==
    /\ refreshOut.served
    /\ DefaultSettersAndFinalizer
    /\ rm.rotateRefreshToken
    /\ refreshOut.c.status = StatusNoContent
    /\ refreshOut.c.hdrAccess # <<>>
    /\ refreshOut.c.hdrRefresh # <<>>
    /\ refreshOut.c.hdrAccess # refreshOut.c.hdrRefresh
    /\ refreshOut.at > 0

\* C6: with rotation enabled, when the access token was generated and the
\* generation of the refresh token fails, the status is 500, the refresh
\* setter and the response finalizer are not called, and the access token
\* passed to the access setter is not retracted (with the default setter the
\* 500 response carries x-access-token).
C6_RefreshGenerationFailure ==
    (/\ refreshOut.served
     /\ rm.rotateRefreshToken
     /\ ~RefreshAuthResult.aborted
     /\ RefreshGot.ok
     /\ ~RefreshAccess.err
     /\ RefreshRefresh.err) =>
        LET c == refreshOut.c
        IN  /\ c.status = StatusInternalServerError
            /\ Calls(c, "refreshTM.GenerateToken") = 1
            /\ Calls(c, "refreshTokenSetterFn") = 0
            /\ Calls(c, "responseHandler") = 0
            /\ c.hdrRefresh = <<>> /\ c.ctxRefresh = <<>>
            /\ Calls(c, "accessTokenSetterFn") = 1
            /\ rm.accessTokenSetterFn = "header" => c.hdrAccess = <<RefreshAccess.token>>
            /\ rm.accessTokenSetterFn # "header" => c.ctxAccess = <<RefreshAccess.token>>

C6_Witness ==
    /\ refreshOut.served
    /\ rm.rotateRefreshToken
    /\ rm.accessTokenSetterFn = "header"
    /\ Calls(refreshOut.c, "refreshTM.GenerateToken") = 1
    /\ refreshOut.c.status = StatusInternalServerError
    /\ refreshOut.c.hdrAccess # <<>>

\* C7: when refresh authentication passed but the claims getter reports no
\* claims or accessTM.GenerateToken returns an error, the status is 500
\* (never 401), no token setter is called, refreshTM.GenerateToken is not
\* called and the response finalizer is not called.
C7_InternalFaultBeforeAccessToken ==
    (/\ refreshOut.served
     /\ ~RefreshAuthResult.aborted
     /\ ~RefreshGot.ok \/ RefreshAccess.err) =>
        LET c == refreshOut.c
        IN  /\ c.status = StatusInternalServerError
            /\ c.status # StatusUnauthorized
            /\ ~c.aborted
            /\ \A name \in {"accessTokenSetterFn", "refreshTokenSetterFn",
                            "refreshTM.GenerateToken", "responseHandler"} :
                  Calls(c, name) = 0
            /\ ~RefreshGot.ok => Calls(c, "accessTM.GenerateToken") = 0
            /\ c.hdrAccess = <<>> /\ c.hdrRefresh = <<>>
            /\ c.ctxAccess = <<>> /\ c.ctxRefresh = <<>>

C7_Witness ==
    /\ refreshOut.served
    /\ rm.rotateRefreshToken
    /\ Calls(refreshOut.c, "accessTM.GenerateToken") = 1
    /\ refreshOut.c.genAccessArgs # <<>>
    /\ refreshOut.c.status = StatusInternalServerError
    /\ Calls(refreshOut.c, "accessTokenSetterFn") = 0

\* C8: with a RefreshManager built by NewRefreshManager to which neither
\* WithRefreshAuthHandler nor WithGetClaims was applied, for every request
\* the refresh authenticator does not abort the claims getter returns
\* ok = true with the claims refreshTM.VerifyToken returned, so that the
\* "claims not found" branch of Handler is not taken.
C8_DefaultPairingFindsClaims ==
    (/\ refreshOut.served
     /\ rmOpts \cap {"refreshAuthHandler", "getClaims"} = {}
     /\ ~RefreshAuthResult.aborted) =>
        LET v == VerifyToken(rm.refreshTM,
                             SliceFrom(refreshOut.req.authorization, Len("Bearer ")),
                             refreshOut.at)
        IN  /\ RefreshGot.ok
            /\ v.err = ""
            /\ RefreshGot.clm = v.clm
            /\ Calls(refreshOut.c, "getClaims") = 1
            /\ refreshOut.c.genAccessArgs = <<v.clm>>

C8_Witness ==
    /\ refreshOut.served
    /\ rmOpts \cap {"refreshAuthHandler", "getClaims"} = {}
    /\ rm.refreshAuthHandler.m.setClaims = "ginKey"
    /\ rm.refreshTM.kind = "server"
    /\ ~refreshOut.c.aborted
    /\ refreshOut.c.genAccessArgs # <<>>
    /\ refreshOut.c.genAccessArgs[1].uid = MaxUid

---------------------------------------------------------------------------
(***************************************************************************)
(* Properties of the active-count middleware (SpecActive).                 *)
(***************************************************************************)

\* C9: every request for which Limit acquired (no error, not limited) gets
\* exactly one call of Decr, made after the downstream handlers finished,
\* also when a downstream handler panicked or aborted the request.
C9_AcquireMatchedByOneDecr ==
    \A r \in 1..NumReqs :
        /\ reqs[r].decrCalls <= 1
        /\ reqs[r].pc = "next" => reqs[r].acquired /\ reqs[r].decrCalls = 0
        /\ (reqs[r].acquired /\ reqs[r].pc = "deferred") =>
              reqs[r].outcome # "" /\ reqs[r].decrCalls = 0
        /\ (reqs[r].acquired /\ reqs[r].pc = "done") =>
              reqs[r].outcome # "" /\ reqs[r].decrCalls = 1

C9_Witness ==
    \E r \in 1..NumReqs :
        /\ reqs[r].pc = "done"
        /\ reqs[r].acquired
        /\ reqs[r].outcome = "panic"
        /\ reqs[r].decrCalls = 1

\* the requests executing downstream handlers under key k
Running(k) == { r \in Slots : reqs[r].pc = "next" /\ reqs[r].key = k }

\* C10: under every interleaving of concurrent requests sharing a key
\* (admitted, rejected and failed ones mixed), the number of requests of that
\* key executing downstream handlers at the same time never exceeds the
\* limiter's ceiling.
C10_RunningWithinCeiling ==
    \A k \in LimiterKeys : Cardinality(Running(k)) <= counter.max

C10_Witness ==
    \E k \in LimiterKeys :
        /\ Cardinality(Running(k)) = counter.max
        /\ \E r \in 1..NumReqs :
              /\ reqs[r].key = k
              /\ reqs[r].pc \in {"deferred", "done"}
              /\ reqs[r].status = StatusTooManyRequests

\* the requests admitted under key k that have not released yet
Open(k) ==
    { r \in Slots : reqs[r].key = k /\ reqs[r].acquired
                    /\ reqs[r].pc \in {"next", "deferred"} }

\* the rejected requests of key k whose Decr is still to come
PendingRejected(k) ==
    { r \in Slots : reqs[r].key = k /\ ~reqs[r].acquired /\ reqs[r].pc = "deferred" }

\* C11 as stated: with a limiter of ceiling N whose calls do not fail, a
\* request arriving while fewer than N admitted requests of its key are open
\* is admitted (so N sequential requests are all admitted, and after one of
\* N open requests released one new request is admitted), and a request
\* arriving while N are open is rejected with 429; never more than N are
\* open.
C11_GateAdmitsByOpenCount ==
    [][\A r \in Slots :
          (reqs[r].pc = "idle" /\ reqs'[r].pc # "idle") =>
              LET k == reqs'[r].key
              IN  /\ Cardinality(Open(k)) <= counter.max
                  /\ Cardinality(Open(k)) < counter.max =>
                        reqs'[r].pc = "next" /\ reqs'[r].acquired
                  /\ Cardinality(Open(k)) = counter.max =>
                        /\ reqs'[r].pc # "next" /\ ~reqs'[r].acquired
                        /\ reqs'[r].status = StatusTooManyRequests]_vars

\* C11 (amended): with a limiter of ceiling N whose calls do not fail, a
\* rejected request holds a count from its Limit call until its deferred
\* Decr, like an admitted one.  A request is admitted exactly when the
\* admitted requests of its key still open and the rejected ones that have
\* not returned yet are together fewer than N, and is rejected with 429
\* otherwise; never more than N are open.  With no rejected request on its
\* way out: N sequential requests are all admitted, a request arriving while
\* N are open is rejected with 429, and after one of N open requests
\* released exactly one new request is admitted.
C11_GateAdmitsUpToCeiling ==
    [][\A r \in Slots :
          (reqs[r].pc = "idle" /\ reqs'[r].pc # "idle") =>
              LET k == reqs'[r].key
                  held == Cardinality(Open(k)) + Cardinality(PendingRejected(k))
              IN  /\ Cardinality(Open(k)) <= counter.max
                  /\ held = counter.cnt[k]
                  /\ held < counter.max =>
                        reqs'[r].pc = "next" /\ reqs'[r].acquired
                  /\ held >= counter.max =>
                        /\ reqs'[r].pc = "deferred" /\ ~reqs'[r].acquired
                        /\ reqs'[r].aborted
                        /\ reqs'[r].status = StatusTooManyRequests]_vars

\* at a gate of ceiling 2: one admitted request has completed and released,
\* two admitted requests of its key are open, none is on its way out
C11_Witness ==
    \E k \in LimiterKeys : \E r1 \in Slots :
        /\ counter.max = GateCeiling
        /\ reqs[r1].key = k /\ reqs[r1].pc = "done"
        /\ reqs[r1].acquired /\ reqs[r1].decrCalls = 1
        /\ Cardinality(Running(k)) = counter.max
        /\ PendingRejected(k) = {}
        /\ counter.cnt[k] = counter.max

\* at a gate of ceiling 2: a request was rejected with 429 and has returned
\* while one admitted request of its key is open and another has released
C11_WitnessRejected ==
    \E k \in LimiterKeys : \E r1, r2 \in Slots :
        /\ counter.max = GateCeiling
        /\ reqs[r1].key = k /\ reqs[r1].pc = "done"
        /\ reqs[r1].acquired /\ reqs[r1].decrCalls = 1
        /\ reqs[r2].key = k /\ reqs[r2].pc = "done"
        /\ ~reqs[r2].acquired /\ reqs[r2].status = StatusTooManyRequests
        /\ Cardinality(Open(k)) = 1

---------------------------------------------------------------------------
(***************************************************************************)
(* Properties of the limit middlewares (SpecLimit).                        *)
(***************************************************************************)
\* the first handler of the chain to which the limiter did not return (false, nil)
FirstRefusal(rets) ==
    IF \E i \in 1..Len(rets) : rets[i].err \/ rets[i].limited
    THEN CHOOSE i \in 1..Len(rets) :
            /\ rets[i].err \/ rets[i].limited
            /\ \A j \in 1..(i - 1) : ~rets[j].err /\ ~rets[j].limited
    ELSE 0

\* C12: for the sliding-window middlewares and the active-count middleware:
\* when Limit returns an error the request is aborted with 500 and the
\* downstream handler never runs, whatever the limited flag is; when it
\* returns no error and limited the request is aborted with 429; the
\* downstream handler runs only when it returns (false, nil).
C12_LimitFailsClosed ==
    lmOut.served =>
        LET i == FirstRefusal(lmOut.rets)
            c == lmOut.c
        IN  /\ c.ran <=> i = 0
            /\ i = 0 => ~c.aborted /\ c.status = StatusOK /\ Len(c.limiterKeys) = lmOut.n
            /\ (i # 0 /\ lmOut.rets[i].err) =>
                  /\ c.aborted /\ c.status = StatusInternalServerError
                  /\ Len(c.limiterKeys) = i
            /\ (i # 0 /\ ~lmOut.rets[i].err) =>
                  /\ c.aborted /\ c.status = StatusTooManyRequests
                  /\ Len(c.limiterKeys) = i

C12_Witness ==
    /\ lmOut.served
    /\ lb.pkg = "slidewindowlimit"
    /\ Len(chain) = 1
    /\ lmOut.rets[1] = [limited |-> TRUE, err |-> TRUE]
    /\ lmOut.c.status = StatusInternalServerError
    /\ ~lmOut.c.ran

\* C13: for the bucket middleware, Build and BuildBlock alike: an error that
\* is context.DeadlineExceeded or context.Canceled gives 504 also when the
\* limiter reports limited; any other error gives 500; no error with limited
\* gives 429; the downstream handler runs only on (false, nil).
C13_BucketStatusByError ==
    bkOut.served =>
        LET err == bkOut.ret.err
            c == bkOut.c
            ctxErr == err \in {"context.DeadlineExceeded", "context.Canceled",
                               "wrapped:context.DeadlineExceeded", "wrapped:context.Canceled"}
        IN  /\ c.ran <=> (err = "" /\ ~bkOut.ret.limited)
            /\ c.ran => ~c.aborted /\ c.status = StatusOK
            /\ ctxErr => c.aborted /\ c.status = StatusGatewayTimeout
            /\ (err # "" /\ ~ctxErr) => c.aborted /\ c.status = StatusInternalServerError
            /\ (err = "" /\ bkOut.ret.limited) =>
                  c.aborted /\ c.status = StatusTooManyRequests

C13_Witness ==
    /\ bkOut.served
    /\ bkOut.variant = "BuildBlock"
    /\ bkOut.ret = [limited |-> TRUE, err |-> "context.DeadlineExceeded"]
    /\ bkOut.c.status = StatusGatewayTimeout
    /\ ~bkOut.c.ran

\* C14: for every bucket limiter instance handed to a builder and not yet
\* closed, exactly one replenishment task (limiter.Put) is running, however
\* many builders were constructed over it.
C14_OnePutPerLimiter ==
    \A l \in 1..NumLimiters :
        (/\ bl[l].made /\ ~bl[l].closed
         /\ \E i \in 1..Len(bb) : bb[i].limiter = l) => bl[l].puts = 1

---------------------------------------------------------------------------
(***************************************************************************)
(* Properties of WithOptions (SpecCopy).                                   *)
(***************************************************************************)
\* the last of the options opts that assigns field f, 0 if none does
LastAssigning(opts, f) ==
    IF \E i \in 1..Len(opts) : opts[i].opt = f
    THEN CHOOSE i \in 1..Len(opts) :
            /\ opts[i].opt = f
            /\ \A j \in (i + 1)..Len(opts) : opts[j].opt # f
    ELSE 0

\* C15: TokenManagerServer.WithOptions and RefreshManager.WithOptions are
\* copy-on-write: each call returns a new instance that has the options
\* applied in order (a field carries the value of the last option assigning
\* it, every other field the receiver's value), and every field of the
\* receiver and of every instance obtained earlier is unchanged.
C15_WithOptionsCopiesOnWrite ==
    [][LET call == lastWith'
           old == heap[call.recv]
           new == heap'[call.ptr]
       IN  /\ call.ptr = Len(heap) + 1
           /\ Len(heap') = Len(heap) + 1
           /\ \A p \in 1..Len(heap) : heap'[p] = heap[p]
           /\ DOMAIN new = DOMAIN old
           /\ \A f \in DOMAIN old :
                 new[f] = IF LastAssigning(call.opts, f) = 0 THEN old[f]
                          ELSE call.opts[LastAssigning(call.opts, f)].val[1]]_<<heap, lastWith>>

\* an instance obtained by WithOptions was itself reconfigured twice, and
\* it differs from both results
C15_Witness ==
    /\ Len(heap) = 4
    /\ lastWith.recv = 3
    /\ heap[3] # heap[1] /\ heap[3] # heap[2]
    /\ heap[4] # heap[3]
    /\ lastWith.opts = <<WithIssuer("a"), WithIssuer("b")>>
    /\ heap[4].Issuer = "b"

---------------------------------------------------------------------------
(***************************************************************************)
(* Properties of a built authentication handler (SpecBuilt).               *)
(***************************************************************************)
\* C16: once Build has returned a handler, its exemption predicate,
\* extraction function and claims-attachment function are fixed: a request
\* served by the handler has the outcome the builder's configuration at the
\* time of Build gives it, whatever setters were called on the builder since.
C16_BuiltHandlerFixed ==
    (authOut.served /\ built # <<>>)
        => authOut.c = ServeAuth(built[1], authOut.req, authOut.at)

---------------------------------------------------------------------------
(***************************************************************************)
(* The documented use of one rate-limit Builder for two middlewares        *)
(* (SpecLimit).                                                            *)
(***************************************************************************)
\* C17: after r.Use(builder.SetKeyGenFunc(f).Build()) and
\* r.Use(builder.Build()) on one Builder of package limit, a request that
\* both limiters let through reached the limiter once with f's key and once
\* with the default key "ip-limiter:<client IP>".
C17_SecondMiddlewareLimitsByIP ==
    ( /\ lmOut.served
      /\ lb.pkg = "limit"
      /\ Len(chain) = 2
      /\ chain[1].genKeyFnAtBuild = "all-request"
      /\ ~lmOut.c.aborted )
        => lmOut.c.limiterKeys = <<"all-request", "ip-limiter:" \o ToString(lmOut.ip)>>

---------------------------------------------------------------------------
(***************************************************************************)
(* Properties of the token codec (SpecCodec).                              *)
(***************************************************************************)
\* the instant the generating manager's clock reads
GeneratedAt == km.timeFunc[1]

\* the instant t truncated down to a whole second
WholeSecond(t) == t - (t % TicksPerSecond)

\* the token was verified by the manager that generated it, the clock unmoved
RoundTrip == ver.done /\ tok.made /\ ver.token = tok.token /\ ver.at = GeneratedAt

\* C18 as stated: for every claims value and every manager, verifying what
\* the manager generated succeeds and returns the claims with issuer, expiry
\* (now + Expire), issued-at (now) and ID overwritten and all else unchanged.
C18_RoundTripExact ==
    RoundTrip =>
        /\ ver.res.err = ""
        /\ ver.res.clm = [tok.clm EXCEPT !.iss = km.Issuer,
                                         !.exp = GeneratedAt + km.Expire,
                                         !.iat = GeneratedAt,
                                         !.jti = km.genIDFn]

\* C18: for every claims value whose not-before, if set, is not after the
\* clock, and every manager whose expiry is at least one second, verifying
\* what the manager generated succeeds and returns the claims with issuer =
\* Issuer, expiry = now + Expire truncated to whole seconds, issued-at = now
\* truncated to whole seconds and ID = genIDFn(), and subject, audience,
\* not-before and the custom fields unchanged.
C18_RoundTrip ==
    (RoundTrip /\ km.Expire >= TicksPerSecond /\ tok.clm.nbf <= GeneratedAt) =>
        /\ ver.res.err = ""
        /\ ver.res.clm = [tok.clm EXCEPT !.iss = km.Issuer,
                                         !.exp = WholeSecond(GeneratedAt + km.Expire),
                                         !.iat = WholeSecond(GeneratedAt),
                                         !.jti = km.genIDFn]

\* a round trip at a clock between two seconds, of claims that carry the
\* caller's subject, audience, not-before, issuer, expiry, issued-at and ID
C18_Witness ==
    /\ RoundTrip /\ km.Expire >= TicksPerSecond
    /\ GeneratedAt % TicksPerSecond # 0
    /\ tok.clm.sub = "s" /\ tok.clm.nbf = TicksPerSecond /\ tok.clm.jti = "caller"
    /\ km.Issuer = "iss" /\ km.genIDFn = "id"
    /\ ver.res.err = ""
    /\ ver.res.clm.exp # GeneratedAt + km.Expire

\* the generated token was verified at some clock reading; its claims set no
\* not-before
ExpiryCheck == ver.done /\ tok.made /\ ver.token = tok.token /\ tok.clm.nbf = 0

\* C19 as stated: a token generated at t0 (any instant) by a manager with
\* expiry d verifies one tick before t0 + d and fails as expired at t0 + d
\* and at any later instant.
C19_ExpiryAtGeneratedPlusExpire ==
    ExpiryCheck =>
        /\ ver.at = GeneratedAt + km.Expire - 1 => ver.res.err = ""
        /\ ver.at >= GeneratedAt + km.Expire => ver.res.err = "expired"

\* C19: a token generated at t0 by a manager with expiry d expires at e, the
\* instant t0 + d truncated to a whole second: it verifies one tick before e
\* and fails as expired at e and at any later instant.
C19_ExpiryAtWholeSecond ==
    ExpiryCheck =>
        /\ ver.at = WholeSecond(GeneratedAt + km.Expire) - 1 => ver.res.err = ""
        /\ ver.at >= WholeSecond(GeneratedAt + km.Expire) => ver.res.err = "expired"

\* a token whose t0 + d lies between two seconds was verified one tick before
\* the whole second below t0 + d, and was valid
C19_Witness ==
    /\ ExpiryCheck
    /\ (GeneratedAt + km.Expire) % TicksPerSecond # 0
    /\ ver.at = WholeSecond(GeneratedAt + km.Expire) - 1
    /\ ver.res.err = ""

\* C20: whenever VerifyToken fails it returns an error together with the zero
\* claims value; nothing decoded from the rejected token is returned.
C20_FailureReturnsZeroClaims ==
    (ver.done /\ ver.res.err # "") => ver.res.clm = ZeroClaims

\* an expired token with decodable claims was rejected, and so was a
\* well-formed token signed with another key
C20_Witness ==
    /\ ver.done
    /\ ver.res.err \in {"expired", "signature"}
    /\ DecodeClaims(Split(ver.token, ".")[2]).ok
    /\ DecodeClaims(Split(ver.token, ".")[2]).clm.uid # 0

\* the errors of package jwt that name a cause of failure
Sentinels(cause) ==
    CASE cause = "malformed" -> {"ErrTokenMalformed"}
      [] cause = "unverifiable" -> {"ErrTokenUnverifiable"}
      [] cause = "noneSignature" -> {"ErrTokenSignatureInvalid"}
      [] cause = "signature" -> {"ErrTokenSignatureInvalid"}
      [] cause = "expired" -> {"ErrTokenExpired"}
      [] cause = "notValidYet" -> {"ErrTokenNotValidYet"}
      [] cause = "expired,notValidYet" -> {"ErrTokenExpired", "ErrTokenNotValidYet"}

\* C21: the error VerifyToken returns classifies the cause by identity: for a
\* malformed, wrongly signed, expired or not yet valid token, errors.Is finds
\* the error of that cause in the returned error.
C21_ErrorTypedByCause ==
    (ver.done /\ ver.res.err # "") => Sentinels(ver.res.err) \subseteq ver.res.unwraps

---------------------------------------------------------------------------
(***************************************************************************)
(* What a client sees of a rejected request (SpecAuth).                    *)
(***************************************************************************)
\* the response written for a request: status, body and token headers
Response(c) ==
    [status |-> c.status, body |-> c.body,
     hdrAccess |-> c.hdrAccess, hdrRefresh |-> c.hdrRefresh]

\* C22: every request the middleware rejects gets the same response, status
\* 401 with an empty body and no token headers, whatever the cause (no token,
\* wrong prefix, malformed, bad signature, expired, not yet valid): any two
\* rejected requests have identical responses.
C22_RejectionsIndistinguishable ==
    (authOut.served /\ authOut.c.aborted) =>
        Response(authOut.c) = [status |-> StatusUnauthorized, body |-> <<>>,
                               hdrAccess |-> <<>>, hdrRefresh |-> <<>>]

\* a request whose token is not yet valid was rejected after verification
C22_Witness ==
    /\ authOut.served /\ authOut.c.aborted
    /\ authOut.req.authorization = "Bearer " \o NotYetValidToken
    /\ authOut.at < TicksPerSecond
    /\ authOut.c.trace = <<"extractToken", "VerifyToken">>

---------------------------------------------------------------------------
(***************************************************************************)
(* Claims of requests in service at once (SpecConc).                       *)
(***************************************************************************)
\* the request in slot r was handled by its route handler
Handled(r) == inflight[r].pc = "done" /\ ~inflight[r].c.aborted

\* C23: whatever other requests are in service at the same time, the claims
\* a route handler reads are exactly those verified from its own request's
\* token (found, ok = true), and (zero, false) when the request carries no
\* attached claims, which is the case of a request on an exempt route.
C23_ClaimsPerRequest ==
    \A r \in 1..NumConc :
        Handled(r) =>
            LET req == inflight[r].req
                v == VerifyToken(mb.TokenManager, extractToken(req), now)
            IN  IF InvokeIgnorePath(mb, req)
                THEN inflight[r].got = NoClaims
                ELSE /\ v.err = ""
                     /\ inflight[r].got = [clm |-> v.clm, ok |-> TRUE]

\* two requests of different users were in service at once: the second
\* passed the middleware before the first one's route handler ran, and each
\* handler read its own user's claims
C23_Witness ==
    /\ Handled(1) /\ inflight[1].got.ok /\ inflight[1].got.clm.uid = 1
    /\ inflight[2].pc = "next" /\ inflight[2].c.setClaimsArgs # <<>>
    /\ inflight[2].c.setClaimsArgs[1].uid = 2

---------------------------------------------------------------------------
(***************************************************************************)
(* Decr in the active-count middleware (SpecActive, SpecRekey).            *)
(***************************************************************************)
\* C24: an error of limiter.Decr after the request was handled is only
\* logged: the step that calls Decr leaves the response status and the abort
\* flag as they were, so an admitted request whose Decr fails answers with
\* the downstream handler's status (200 when the handler set it).
C24_DecrErrorOnlyLogged ==
    [][\A r \in 1..NumReqs :
          (reqs[r].pc = "deferred" /\ reqs'[r].pc = "done") =>
              /\ reqs'[r].status = reqs[r].status
              /\ reqs'[r].aborted = reqs[r].aborted
              /\ (reqs[r].acquired /\ reqs[r].outcome = "ok") =>
                    reqs'[r].status = StatusOK /\ ~reqs'[r].aborted]_vars

\* an admitted request was handled, its Decr failed and it answered 200
C24_Witness ==
    \E r \in 1..NumReqs :
        /\ reqs[r].pc = "done" /\ reqs[r].acquired /\ reqs[r].outcome = "ok"
        /\ reqs[r].decrErr
        /\ reqs[r].status = StatusOK /\ ~reqs[r].aborted

\* C26: limiter.Decr is called exactly once for every request for which
\* limiter.Limit returned no error, requests rejected with 429 included, and
\* never for a request for which limiter.Limit returned an error.
C26_DecrOnceUnlessLimitFailed ==
    \A r \in 1..NumReqs :
        /\ reqs[r].pc \in {"next", "deferred"} => ~reqs[r].err /\ reqs[r].decrCalls = 0
        /\ reqs[r].pc = "done" =>
              reqs[r].decrCalls = IF reqs[r].err THEN 0 ELSE 1

\* a request rejected with 429 has finished after one call of Decr while
\* another one, whose Limit call failed, has finished without any
C26_Witness ==
    \E r1, r2 \in 1..NumReqs :
        /\ reqs[r1].pc = "done" /\ reqs[r1].limited /\ ~reqs[r1].err
        /\ reqs[r1].status = StatusTooManyRequests /\ reqs[r1].decrCalls = 1
        /\ reqs[r2].pc = "done" /\ reqs[r2].err /\ reqs[r2].decrCalls = 0

\* C27: the key passed to limiter.Decr for a request equals the key passed to
\* limiter.Limit for that request, also when the builder's key function is
\* set while the request is in service.
C27_DecrKeyIsLimitKey ==
    \A r \in 1..NumReqs :
        reqs[r].decrCalls > 0 => reqs[r].decrKey = reqs[r].key

---------------------------------------------------------------------------
(***************************************************************************)
(* The order of the steps of RefreshManager.Handler (SpecRefresh).         *)
(***************************************************************************)
\* the steps of Handler in their order, with or without rotation
HandlerOrder(rotate) ==
    IF rotate
    THEN <<"refreshAuthHandler", "getClaims", "accessTM.GenerateToken",
           "accessTokenSetterFn", "refreshTM.GenerateToken", "refreshTokenSetterFn",
           "responseHandler">>
    ELSE <<"refreshAuthHandler", "getClaims", "accessTM.GenerateToken",
           "accessTokenSetterFn", "responseHandler">>

\* the steps of Handler among the calls made for the request, in call order
HandlerSteps(c) ==
    SelectSeq(c.trace, LAMBDA e : e \in { HandlerOrder(TRUE)[i] : i \in 1..7 })

\* C25: the steps of Handler run in the order refresh authentication, claims
\* getter, accessTM.GenerateToken, access setter, then with rotation
\* refreshTM.GenerateToken and refresh setter, then the response finalizer:
\* the steps run for a request are a non-empty initial part of that order
\* (so each runs at most once), and the finalizer runs, once, exactly when
\* every step before it succeeded.
C25_HandlerStepsInOrder ==
    refreshOut.served =>
        LET st == HandlerSteps(refreshOut.c)
            order == HandlerOrder(rm.rotateRefreshToken)
            succeeded == /\ ~RefreshAuthResult.aborted
                         /\ RefreshGot.ok
                         /\ ~RefreshAccess.err
                         /\ rm.rotateRefreshToken => ~RefreshRefresh.err
        IN  /\ Len(st) >= 1 /\ Len(st) <= Len(order)
            /\ st = SubSeq(order, 1, Len(st))
            /\ Calls(refreshOut.c, "responseHandler") = (IF succeeded THEN 1 ELSE 0)

\* a request with rotation ran all seven steps
C25_Witness ==
    /\ refreshOut.served
    /\ rm.rotateRefreshToken
    /\ rm.refreshAuthHandler.kind = "middleware"
    /\ HandlerSteps(refreshOut.c) = HandlerOrder(TRUE)

---------------------------------------------------------------------------
(***************************************************************************)
(* The identity carried by refreshed tokens (SpecRefresh).                 *)
(***************************************************************************)
\* the refresh succeeded: the response finalizer ran
RefreshSucceeded == refreshOut.served /\ Calls(refreshOut.c, "responseHandler") = 1

\* what verifying the request's refresh token returned to the authentication
\* handler
RefreshVerified ==
    VerifyToken(rm.refreshAuthHandler.m.TokenManager,
                InvokeExtractToken(rm.refreshAuthHandler.m, refreshOut.req),
                refreshOut.at)

\* the token handed to the access setter and the one handed to the refresh
\* setter
IssuedAccess == refreshOut.c.hdrAccess \o refreshOut.c.ctxAccess

IssuedRefresh == refreshOut.c.hdrRefresh \o refreshOut.c.ctxRefresh

\* claims clm as manager t stamps them at instant at
Restamped(clm, t, at) ==
    [clm EXCEPT !.iss = t.Issuer,
                !.exp = (at + t.Expire) - ((at + t.Expire) % TicksPerSecond),
                !.iat = at - (at % TicksPerSecond),
                !.jti = t.genIDFn]

\* C30: in a successful refresh the claims passed to accessTM.GenerateToken
\* and, with rotation, to refreshTM.GenerateToken are exactly the claims
\* that verifying the request's refresh token returned; the new tokens
\* carry these claims with only issuer, expiry, issued-at and ID restamped by
\* the respective manager.
C30_RefreshKeepsIdentity ==
    (RefreshSucceeded /\ rm.refreshAuthHandler.kind = "middleware") =>
        LET c == refreshOut.c
            clm == RefreshVerified.clm
        IN  /\ RefreshVerified.err = ""
            /\ c.genAccessArgs = <<clm>>
            /\ Len(IssuedAccess) = 1
            /\ DecodeClaims(Split(IssuedAccess[1], ".")[2]).clm
                   = Restamped(clm, rm.accessTM, refreshOut.at)
            /\ ~rm.rotateRefreshToken => c.genRefreshArgs = <<>>
            /\ rm.rotateRefreshToken =>
                  /\ c.genRefreshArgs = <<clm>>
                  /\ Len(IssuedRefresh) = 1
                  /\ DecodeClaims(Split(IssuedRefresh[1], ".")[2]).clm
                         = Restamped(clm, rm.refreshTM, refreshOut.at)

\* user 2 refreshed with rotation after the first second: both new tokens
\* are user 2's and were stamped anew
C30_Witness ==
    /\ RefreshSucceeded
    /\ rm.refreshAuthHandler.kind = "middleware"
    /\ rm.rotateRefreshToken
    /\ refreshOut.at >= TicksPerSecond
    /\ RefreshVerified.clm.uid = 2
    /\ refreshOut.c.genRefreshArgs = <<RefreshVerified.clm>>
    /\ Len(IssuedRefresh) = 1
    /\ IssuedRefresh[1] # extractToken(refreshOut.req)

---------------------------------------------------------------------------
(***************************************************************************)
(* Refresh tokens presented again (SpecReplay).                            *)
(***************************************************************************)
\* the expiry written in the refresh token of the last request
PresentedExpiry == DecodeClaims(Split(extractToken(refreshOut.req), ".")[2]).clm.exp

\* C29: Handler keeps no state between requests: a refresh token that was
\* already used in successful refreshes with rotation, any number of times,
\* is accepted again and yields an access and a refresh token as long as it
\* has not expired under the refresh manager's clock, and is rejected (401)
\* once it has.
C29_RotatedTokenStillAccepted ==
    (refreshOut.served /\ rm.rotateRefreshToken /\ replay.prior >= 1) =>
        LET c == refreshOut.c
        IN  IF refreshOut.at < PresentedExpiry
            THEN /\ ~c.aborted
                 /\ c.status = StatusNoContent
                 /\ Len(c.hdrAccess) = 1 /\ Len(c.hdrRefresh) = 1
            ELSE /\ c.aborted
                 /\ c.status = StatusUnauthorized
                 /\ c.hdrAccess = <<>> /\ c.hdrRefresh = <<>>

\* a refresh token used in two successful rotations was accepted a third time
C29_Witness ==
    /\ refreshOut.served /\ rm.rotateRefreshToken
    /\ replay.prior = MaxReplay
    /\ refreshOut.c.status = StatusNoContent
    /\ Len(refreshOut.c.hdrRefresh) = 1

\* a refresh token used in a successful rotation was rejected after it expired
C29_WitnessExpired ==
    /\ refreshOut.served /\ rm.rotateRefreshToken
    /\ replay.prior >= 1
    /\ refreshOut.at >= PresentedExpiry
    /\ refreshOut.c.status = StatusUnauthorized

\* the value on a request of the predicate an exemption call defines
Exempts(fn, req) ==
    CASE fn.kind = "never" -> FALSE
      [] fn.kind = "fullPath" -> FullPath(req.path) \in fn.paths
      [] fn.kind = "path" -> req.path \in fn.paths

\* C28: exemption setters replace one another: after any sequence of
\* IgnorePathFunc, IgnorePath and IgnoreFullPath calls the builder exempts
\* exactly the requests the last call's predicate names, and the handler lets
\* exactly these through unauthenticated: a request the last call does not
\* name, whatever earlier calls listed, is rejected with 401 without a token
\* and has its token verified otherwise
C28_LastExemptionCallWins ==
    /\ \A req \in ExemptRequests :
          InvokeIgnorePath(eb.m, req) = Exempts(eb.last, req)
    /\ eb.out.served =>
          IF Exempts(eb.last, eb.out.req)
          THEN /\ ~eb.out.c.aborted
               /\ Calls(eb.out.c, "extractToken") = 0
               /\ Calls(eb.out.c, "VerifyToken") = 0
          ELSE /\ Calls(eb.out.c, "extractToken") = 1
               /\ IF eb.out.req.authorization = ""
                  THEN /\ eb.out.c.aborted
                       /\ eb.out.c.status = StatusUnauthorized
                  ELSE Calls(eb.out.c, "VerifyToken") = 1

\* a path listed in the call before the last and not in the last one was
\* requested without a token and rejected
C28_Witness ==
    /\ eb.out.served
    /\ eb.out.req.authorization = ""
    /\ eb.prev.kind # "never" /\ eb.last.kind # "never"
    /\ Exempts(eb.prev, eb.out.req)
    /\ ~Exempts(eb.last, eb.out.req)
    /\ eb.out.c.status = StatusUnauthorized

====
